---------------------------- MODULE Spec2Model ----------------------------
(***************************************************************************)
(* Royalty engine of the franchise billing backend:                        *)
(*   services/payment_summary_generator.py  (tiered royalty, fees,         *)
(*                                           ClassSales extractor,         *)
(*                                           payment summary)              *)
(*   routes/payment_summary.py              (the endpoint's own copy)      *)
(*   generate_royalty_report.py             (tree walker, category         *)
(*                                           structure, merge)             *)
(*                                                                         *)
(* Money is held in integer cents.  Python floats are modelled as exact    *)
(* decimals; round(x, 2) is round-half-even on the exact value.  A rate is *)
(* an integer number of 1/RATE_SCALE (0.10 = 200/2000).                    *)
(***************************************************************************)
EXTENDS Integers, Sequences, FiniteSets, TLC

VARIABLES
    fn,       \* royalty calculator: the function applied last ("" before any)
    args,     \* royalty calculator: its arguments
    ret,      \* royalty calculator: the dict it returned
    last_month_data,  \* the Last-Month document handed to the engine
    ytd_data,         \* the Year-to-Date document handed to the engine
    period_arg,       \* calculate_payment_summary: period_month, period_year
    now,              \* the wall clock (datetime.now()): [month, year]
    summary,          \* the PaymentSummary returned, NoSummary before the call
    routes_summary,   \* the summary the endpoint's copy returned, NoSummary before
    months,           \* the year's monthly brand-fund calculations so far
    totals,           \* extract_totals_from_json: the map of the latest call
    calls,            \* extract_totals_from_json: the calls made, with results
    report_pc,        \* generate_report: "loaded", "extracted" or "merged"
    report_lm_categories,    \* generate_report: structure of the Last-Month document
    report_ytd_categories,   \* generate_report: structure of the Year-to-Date document
    report_categories        \* generate_report: the merged structure it formats

royaltyVars == <<fn, args, ret>>
summaryVars == <<last_month_data, ytd_data, period_arg, now, summary,
                 routes_summary, months>>
walkerVars == <<totals, calls>>
structureVars == <<report_pc, report_lm_categories, report_ytd_categories,
                   report_categories>>
vars == <<fn, args, ret, last_month_data, ytd_data, period_arg, now, summary,
          routes_summary, months, totals, calls, report_pc, report_lm_categories,
          report_ytd_categories, report_categories>>
notRoyaltyVars == <<summaryVars, walkerVars, structureVars>>
notSummaryVars == <<royaltyVars, walkerVars, structureVars>>

(***************************************************************************)
(* Bounds of the model.                                                    *)
(***************************************************************************)
\* Volumes are taken within VolumeDelta cents of every tier boundary.
VolumeDelta == 2

(***************************************************************************)
(* Arithmetic on money.                                                    *)
(***************************************************************************)
\* F(v) with v evaluated once: a bound variable holds a value, where a LET
\* definition or an argument may be evaluated again at each of its uses.
Bind(v, F(_)) == CHOOSE r \in {F(x) : x \in {v}} : TRUE

\* float('nan') as a volume: a value outside the range of money, on which
\* every comparison of Python is false.
NaN == -2000000000

\* a <= b, a > b and a + b on Python floats.
FloatLeq(a, b) == a # NaN /\ b # NaN /\ a <= b
FloatGt(a, b) == a # NaN /\ b # NaN /\ a > b
FloatAdd(a, b) == IF a = NaN \/ b = NaN THEN NaN ELSE a + b

Max(a, b) == IF a >= b THEN a ELSE b
Min(a, b) == IF a <= b THEN a ELSE b

\* round(): n / d rounded to the nearest integer, ties to even (d > 0).
RoundDiv(n, d) ==
    LET q == n \div d
        r == n % d
    IN  IF 2 * r > d THEN q + 1
        ELSE IF 2 * r < d THEN q
        ELSE IF q % 2 = 0 THEN q ELSE q + 1

RATE_SCALE == 2000

\* round(amount * rate, 2) for an amount in cents; the product is split so
\* that it stays within TLC's integers.
MulRate(amount, rate) ==
    (amount \div RATE_SCALE) * rate
        + RoundDiv((amount % RATE_SCALE) * rate, RATE_SCALE)

(***************************************************************************)
(* services/payment_summary_generator.py: constants.                       *)
(***************************************************************************)
\* A tier: max in cents (meaningless when unbounded, float('inf')), rate,
\* fixed royalty, threshold (has_threshold: "threshold" in tier), fixed fee.
Tier(mx, unb, rate, fixed, hasThr, thr, fee) ==
    [max |-> mx, unbounded |-> unb, rate |-> rate, fixed |-> fixed,
     has_threshold |-> hasThr, threshold |-> thr, fixed_fee |-> fee]

STANDARD_RATE_TIERS ==
    << Tier(1284999,  FALSE, 200, 0,       FALSE, 0,        4500),
       Tier(2141699,  FALSE, 180, 0,       FALSE, 0,        6500),
       Tier(3212499,  FALSE, 160, 0,       FALSE, 0,        8500),
       Tier(4283299,  FALSE, 150, 0,       FALSE, 0,        9500),
       Tier(7495699,  FALSE, 140, 0,       FALSE, 0,        11500),
       Tier(10708299, FALSE, 130, 524700,  TRUE,  7495699,  11500),
       Tier(16062399, FALSE, 120, 733500,  TRUE,  10708299, 11500),
       Tier(21416499, FALSE, 110, 1054700, TRUE,  16062399, 11500),
       Tier(0,        TRUE,  100, 1349200, TRUE,  21416499, 11500) >>

MINIMUM_ROYALTY == 14500

REDUCED_RATE_THRESHOLD == 3212499
REDUCED_RATE_BELOW == 80
REDUCED_RATE_ABOVE == 60
REDUCED_RATE_FIXED == 128500

NATIONAL_ACCOUNTS_FEE_RATE == 10
NATIONAL_BRAND_FUND_RATE == 50
NATIONAL_BRAND_FUND_REDUCED_RATE == 5

\* NATIONAL_BRAND_FUND_CAP, in cents.
NATIONAL_BRAND_FUND_CAP ==
    [y \in 2017..2025 |->
        CASE y = 2017 -> 80000000
          [] y = 2018 -> 85000000
          [] y = 2019 -> 90000000
          [] y = 2020 -> 95000000
          [] y = 2021 -> 105000000
          [] y = 2022 -> 115000000
          [] y = 2023 -> 125000000
          [] y = 2024 -> 135000000
          [] y = 2025 -> 145000000]

(***************************************************************************)
(* services/payment_summary_generator.py: royalty and fee functions.       *)
(***************************************************************************)
\* volume <= tier["max"], where the last tier's max is float('inf').
WithinTierMutant(volume, tier) == tier.unbounded \/ volume < tier.max
WithinTier(volume, tier) ==
    IF tier.unbounded THEN volume # NaN ELSE FloatLeq(volume, tier.max)

\* The body of the for loop with the excess taken off the fixed royalty.
TierResultLessExcess(volume, tier) ==
    IF tier.has_threshold
    THEN [royalty |-> tier.fixed - MulRate(volume - tier.threshold, tier.rate),
          fixed_fee |-> tier.fixed_fee, rate |-> tier.rate,
          is_minimum |-> FALSE, matched |-> TRUE]
    ELSE [royalty |-> MulRate(volume, tier.rate),
          fixed_fee |-> tier.fixed_fee, rate |-> tier.rate,
          is_minimum |-> FALSE, matched |-> TRUE]

\* The body of the for loop for the tier that matched.
TierResult(volume, tier) ==
    IF tier.has_threshold
    THEN [royalty |-> tier.fixed + MulRate(volume - tier.threshold, tier.rate),
          fixed_fee |-> tier.fixed_fee, rate |-> tier.rate,
          is_minimum |-> FALSE, matched |-> TRUE]
    ELSE [royalty |-> MulRate(volume, tier.rate),
          fixed_fee |-> tier.fixed_fee, rate |-> tier.rate,
          is_minimum |-> FALSE, matched |-> TRUE]

\* for tier in STANDARD_RATE_TIERS, from index i on; the fall-through return
\* ("Should not reach here") when the table is exhausted.
RECURSIVE StandardTierLoop(_, _)
StandardTierLoop(volume, i) ==
    IF i > Len(STANDARD_RATE_TIERS)
    THEN [royalty |-> 0, fixed_fee |-> 11500, rate |-> 0,
          is_minimum |-> FALSE, matched |-> FALSE]
    ELSE IF WithinTier(volume, STANDARD_RATE_TIERS[i])
         THEN TierResult(volume, STANDARD_RATE_TIERS[i])
         ELSE StandardTierLoop(volume, i + 1)

calculate_standard_rate_royalty(volume) ==
    IF FloatLeq(volume, 0)
    THEN [royalty |-> MINIMUM_ROYALTY, fixed_fee |-> 4500, rate |-> 0,
          is_minimum |-> TRUE, matched |-> FALSE]
    ELSE StandardTierLoop(volume, 1)

calculate_reduced_rate_royalty_mutant(volume) ==
    IF volume <= 0
    THEN [royalty |-> 0, excess_amount |-> 0, rate_applied |-> 0]
    ELSE IF volume < REDUCED_RATE_THRESHOLD
         THEN [royalty |-> MulRate(volume, REDUCED_RATE_BELOW),
               excess_amount |-> 0, rate_applied |-> REDUCED_RATE_BELOW]
         ELSE [royalty |-> REDUCED_RATE_FIXED
                            + MulRate(volume - REDUCED_RATE_THRESHOLD,
                                      REDUCED_RATE_ABOVE),
               excess_amount |-> volume - REDUCED_RATE_THRESHOLD,
               rate_applied |-> REDUCED_RATE_ABOVE]

calculate_reduced_rate_royalty(volume) ==
    IF volume <= 0
    THEN [royalty |-> 0, excess_amount |-> 0, rate_applied |-> 0]
    ELSE IF volume <= REDUCED_RATE_THRESHOLD
         THEN [royalty |-> MulRate(volume, REDUCED_RATE_BELOW),
               excess_amount |-> 0, rate_applied |-> REDUCED_RATE_BELOW]
         ELSE [royalty |-> REDUCED_RATE_FIXED
                            + MulRate(volume - REDUCED_RATE_THRESHOLD,
                                      REDUCED_RATE_ABOVE),
               excess_amount |-> volume - REDUCED_RATE_THRESHOLD,
               rate_applied |-> REDUCED_RATE_ABOVE]

get_national_brand_fund_cap(year) ==
    IF year \in DOMAIN NATIONAL_BRAND_FUND_CAP
    THEN NATIONAL_BRAND_FUND_CAP[year]
    ELSE IF year > 2025
         THEN NATIONAL_BRAND_FUND_CAP[2025] + (year - 2025) * 10000000
         ELSE NATIONAL_BRAND_FUND_CAP[2017]

calculate_national_brand_fund_fee_mutant(this_month, ytd_before, year) ==
    LET cap == get_national_brand_fund_cap(year)
        remaining_cap == Max(0, cap - ytd_before)
    IN  IF this_month <= 0
        THEN [fee |-> 0, applicable |-> 0, capped |-> FALSE,
              remaining_cap |-> remaining_cap, annual_cap |-> cap]
        ELSE [fee |-> MulRate(this_month, NATIONAL_BRAND_FUND_RATE),
              applicable |-> this_month, capped |-> FALSE,
              remaining_cap |-> Max(0, remaining_cap - this_month),
              annual_cap |-> cap]

\* "applicable" is the amount the description names ("2.5% of $<amount>").
calculate_national_brand_fund_fee(this_month, ytd_before, year) ==
    LET cap == get_national_brand_fund_cap(year)
        remaining_cap == Max(0, cap - ytd_before)
    IN  IF this_month <= 0
        THEN [fee |-> 0, applicable |-> 0, capped |-> FALSE,
              remaining_cap |-> remaining_cap, annual_cap |-> cap]
        ELSE IF remaining_cap <= 0
        THEN [fee |-> 0, applicable |-> 0, capped |-> TRUE,
              remaining_cap |-> 0, annual_cap |-> cap]
        ELSE LET applicable_amount == Min(this_month, remaining_cap)
                 capped == applicable_amount < this_month
             IN  [fee |-> MulRate(applicable_amount, NATIONAL_BRAND_FUND_RATE),
                  applicable |-> applicable_amount,
                  capped |-> capped,
                  remaining_cap |-> IF ~capped
                                    THEN remaining_cap - applicable_amount
                                    ELSE 0,
                  annual_cap |-> cap]

(***************************************************************************)
(* routes/payment_summary.py: the endpoint's copy of the standard-rate     *)
(* calculation (same tier table, without "min").                           *)
(***************************************************************************)
routes_calculate_standard_rate_royalty(volume) ==
    IF FloatLeq(volume, 0)
    THEN [royalty |-> 0, fixed_fee |-> 4500, rate |-> 0,
          is_minimum |-> FALSE, matched |-> FALSE]
    ELSE StandardTierLoop(volume, 1)

(***************************************************************************)
(* Strings.  A Python str is a TLA+ string; characters are read with       *)
(* SubSeq.                                                                 *)
(***************************************************************************)
CharAt(s, i) == SubSeq(s, i, i)

UpperChars == "ABCDEFGHIJKLMNOPQRSTUVWXYZ"
LowerChars == "abcdefghijklmnopqrstuvwxyz"
DigitChars == "0123456789"

IsIn(c, chars) == \E i \in 1..Len(chars) : CharAt(chars, i) = c
IndexIn(c, chars) == CHOOSE i \in 1..Len(chars) : CharAt(chars, i) = c

\* str.lower()
RECURSIVE Lower(_)
Lower(s) ==
    IF s = "" THEN ""
    ELSE LET c == CharAt(s, 1)
             lc == IF IsIn(c, UpperChars)
                   THEN CharAt(LowerChars, IndexIn(c, UpperChars))
                   ELSE c
         IN  lc \o Lower(SubSeq(s, 2, Len(s)))

\* str.startswith(prefix)
StartsWith(s, prefix) ==
    Len(s) >= Len(prefix) /\ SubSeq(s, 1, Len(prefix)) = prefix

\* sub in s
Contains(s, sub) ==
    \E i \in 1..(Len(s) - Len(sub) + 1) : SubSeq(s, i, i + Len(sub) - 1) = sub

\* The value of a string of decimal digits; -1 when it is empty or holds
\* another character.
RECURSIVE DigitsValue(_, _)
DigitsValue(s, acc) ==
    IF s = "" THEN acc
    ELSE IF ~IsIn(CharAt(s, 1), DigitChars) THEN -1
    ELSE DigitsValue(SubSeq(s, 2, Len(s)),
                     acc * 10 + (IndexIn(CharAt(s, 1), DigitChars) - 1))

AllDigits(s) == \A i \in 1..Len(s) : IsIn(CharAt(s, i), DigitChars)

\* int(s): [ok, v]; ok = FALSE stands for ValueError.
ParseInt(s) ==
    IF s # "" /\ AllDigits(s)
    THEN [ok |-> TRUE, v |-> DigitsValue(s, 0)]
    ELSE [ok |-> FALSE, v |-> 0]

\* float(s) in cents: [ok, v]; ok = FALSE stands for ValueError.  Decimal
\* literals [-]digits[.digits] with at most two decimals are read (the
\* amounts of the reports) and "nan" in any case, which float() accepts;
\* any other text is a ValueError.
ParseDecimal(s) ==
    LET neg == s # "" /\ CharAt(s, 1) = "-"
        body == IF neg THEN SubSeq(s, 2, Len(s)) ELSE s
        dots == {i \in 1..Len(body) : CharAt(body, i) = "."}
        dot == IF dots = {} THEN Len(body) + 1
               ELSE CHOOSE i \in dots : \A j \in dots : i <= j
        ip == SubSeq(body, 1, dot - 1)
        fp == SubSeq(body, dot + 1, Len(body))
        good == /\ AllDigits(ip) /\ AllDigits(fp)
                /\ Len(ip) + Len(fp) >= 1
                /\ Len(fp) <= 2
        fpad == IF Len(fp) = 0 THEN "00"
                ELSE IF Len(fp) = 1 THEN fp \o "0" ELSE fp
        mag == DigitsValue(ip, 0) * 100 + DigitsValue(fpad, 0)
    IN  IF good
        THEN [ok |-> TRUE, v |-> IF neg THEN 0 - mag ELSE mag]
        ELSE [ok |-> FALSE, v |-> 0]

ParseFloat(s) ==
    IF Lower(s) = "nan" THEN [ok |-> TRUE, v |-> NaN] ELSE ParseDecimal(s)

\* a * b / c rounded half-even (c > 0, a, b >= 0) without leaving TLC's
\* integers: <<quotient, remainder>> of a * b by c, by doubling.
RECURSIVE MulDivMod(_, _, _)
MulDivMod(a, b, c) ==
    IF b = 0 THEN <<0, 0>>
    ELSE Bind(MulDivMod(a, b \div 2, c), LAMBDA h :
             LET r2 == 2 * h[2] + (IF b % 2 = 1 THEN a % c ELSE 0)
                 q2 == 2 * h[1] + (IF b % 2 = 1 THEN a \div c ELSE 0)
             IN  <<q2 + (r2 \div c), r2 % c>>)

MulDivRoundAbs(aa, bb, c) ==
    Bind(MulDivMod(aa, bb, c), LAMBDA qr :
        LET q == qr[1]
            r == qr[2]
        IN  IF 2 * r > c THEN q + 1
            ELSE IF 2 * r < c THEN q
            ELSE IF q % 2 = 0 THEN q ELSE q + 1)

MulDivRound(a, b, c) ==
    LET sgn == IF (a < 0) # (b < 0) THEN -1 ELSE 1
        aa == IF a < 0 THEN 0 - a ELSE a
        bb == IF b < 0 THEN 0 - b ELSE b
    IN  sgn * MulDivRoundAbs(aa, bb, c)

(***************************************************************************)
(* services/payment_summary_generator.py: the ClassSales extractor.        *)
(*                                                                         *)
(* A document is the parsed JSON: a dict is a record (a function on its   *)
(* keys, <<>> for {}), a list is a sequence:                               *)
(*   [Header  |-> [EndPeriod |-> str],                                     *)
(*    Columns |-> [Column |-> <<[ColTitle |-> str], ...>>],                *)
(*    Rows    |-> [Row |-> <<[type, group,                                 *)
(*                            Summary |-> [ColData |-> <<cell, ...>>]],    *)
(*                           ...>>]]                                       *)
(* where a cell is [value |-> str], or a dict without the "value" key.     *)
(* JSON null is the value Null.                                            *)
(***************************************************************************)
\* k in d, d.get(k, default) and d[k] = v for a Python dict.
Has(d, k) == k \in DOMAIN d
Get(d, k, default) == IF k \in DOMAIN d THEN d[k] ELSE default
Put(d, k, v) == (k :> v) @@ d

None == -1
Null == "<null>"

Categories ==
    <<"water", "fire", "mold_bio", "other", "subcontract", "reconstruction">>

CATEGORY_PATTERNS ==
    [c \in {Categories[i] : i \in 1..Len(Categories)} |->
        CASE c = "water" ->
                <<"Total Commercial - Water", "Total Residential - Water",
                  "Commercial - Water", "Residential - Water",
                  "Total 1 - WATER", "1 - WATER">>
          [] c = "fire" ->
                <<"Total Commercial - Fire", "Total Residential - Fire",
                  "Commercial - Fire", "Residential - Fire",
                  "Total 2 - FIRE", "2 - FIRE">>
          [] c = "mold_bio" ->
                <<"Total Commercial - Mold/Bio Hazard",
                  "Total Residential - Mold/Bio Hazard",
                  "Commercial - Mold/Bio Hazard",
                  "Residential - Mold/Bio Hazard",
                  "Total 3 - MOLD/BIO HAZARD", "3 - MOLD/BIO HAZARD">>
          [] c = "other" ->
                <<"Total Commercial - Other", "Total Residential - Other",
                  "Commercial - Other", "Residential - Other",
                  "Total 4 - OTHER", "4 - OTHER">>
          [] c = "subcontract" ->
                <<"Total Commercial - Subcontract",
                  "Total Residential - Subcontract",
                  "Commercial - Subcontract", "Residential - Subcontract",
                  "Total 5 - SUBCONTRACT", "5 - SUBCONTRACT">>
          [] c = "reconstruction" ->
                <<"Total Commercial - Reconstruction",
                  "Total Residential - Reconstruction",
                  "Commercial - Reconstruction", "Residential - Reconstruction",
                  "Total 6 - RECONSTRUCTION", "6 - RECONSTRUCTION">>]

\* The indices (from 1) that extract_column_mapping keeps: the title is not
\* empty, and a later column of the same title overwrites an earlier one.
\* [col.get("ColTitle", "") for col in columns], with
\* columns = rvcr_data.get("Columns", {}).get("Column", []).
ColumnTitles(rvcr_data) ==
    LET columns == Get(Get(rvcr_data, "Columns", <<>>), "Column", <<>>)
    IN  [i \in 1..Len(columns) |-> Get(columns[i], "ColTitle", "")]

\* rvcr_data.get("Rows", {}).get("Row", [])
TopRows(rvcr_data) == Get(Get(rvcr_data, "Rows", <<>>), "Row", <<>>)

extract_column_mapping(rvcr_data) ==
    LET cols == ColumnTitles(rvcr_data)
    IN  {i \in 1..Len(cols) :
            /\ cols[i] # ""
            /\ \A j \in (i + 1)..Len(cols) : cols[j] # cols[i]}

\* The elements of a set of integers in ascending order.
RECURSIVE Ascending(_)
Ascending(S) ==
    IF S = {} THEN <<>>
    ELSE LET m == CHOOSE x \in S : \A y \in S : x <= y
         IN  <<m>> \o Ascending(S \ {m})

\* re.match(pattern, title, re.IGNORECASE) for the literal patterns of
\* CATEGORY_PATTERNS: the title starts with the pattern, case ignored.
LowerChar(c) ==
    IF IsIn(c, UpperChars) THEN CharAt(LowerChars, IndexIn(c, UpperChars)) ELSE c

RECURSIVE IPrefixFrom(_, _, _)
IPrefixFrom(pattern, title, i) ==
    \/ i > Len(pattern)
    \/ /\ \/ CharAt(pattern, i) = CharAt(title, i)
          \/ LowerChar(CharAt(pattern, i)) = LowerChar(CharAt(title, i))
       /\ IPrefixFrom(pattern, title, i + 1)

ReMatchIgnoreCase(pattern, title) ==
    Len(title) >= Len(pattern) /\ IPrefixFrom(pattern, title, 1)

PatternMatches(patterns, title) ==
    \E k \in 1..Len(patterns) :
        title = patterns[k] \/ ReMatchIgnoreCase(patterns[k], title)

\* The type filter and the prefer_total skip of find_category_column's loop.
Skipped(title, type_filter, prefer_total) ==
    \/ type_filter = "commercial" /\ ~Contains(Lower(title), "commercial")
    \/ type_filter = "residential" /\ ~Contains(Lower(title), "residential")
    \/ /\ type_filter = "total"
       /\ (Contains(Lower(title), "commercial")
            \/ Contains(Lower(title), "residential"))
    \/ /\ prefer_total
       /\ type_filter \in {"commercial", "residential"}
       /\ ~StartsWith(title, "Total ")

\* for title, idx in sorted_items, from position k on: the first index
\* whose title matches, None when there is none.
RECURSIVE FindLoop(_, _, _, _, _, _)
FindLoop(cols, sorted_items, k, patterns, type_filter, prefer_total) ==
    IF k > Len(sorted_items) THEN None
    ELSE IF /\ ~Skipped(cols[sorted_items[k]], type_filter, prefer_total)
            /\ PatternMatches(patterns, cols[sorted_items[k]])
         THEN sorted_items[k]
         ELSE FindLoop(cols, sorted_items, k + 1, patterns, type_filter,
                       prefer_total)

\* sorted(col_mapping.items(), key = (0 if "Total " prefix else 1, idx))
FindSortedMutant(cols, col_mapping) == Ascending(col_mapping)

\* The sort with the titles not starting with "Total " first.
FindSortedBareFirst(cols, col_mapping) ==
    Ascending({i \in col_mapping : ~StartsWith(cols[i], "Total ")})
        \o Ascending({i \in col_mapping : StartsWith(cols[i], "Total ")})

FindSorted(cols, col_mapping) ==
    Ascending({i \in col_mapping : StartsWith(cols[i], "Total ")})
        \o Ascending({i \in col_mapping : ~StartsWith(cols[i], "Total ")})

\* find_category_column: the index found, or None; type_filter "" is None.
find_category_column(cols, col_mapping, patterns, type_filter, prefer_total) ==
    Bind(FindSorted(cols, col_mapping), LAMBDA sorted_items :
    Bind(FindLoop(cols, sorted_items, 1, patterns, type_filter, prefer_total),
         LAMBDA first :
            IF first # None THEN first
            ELSE IF prefer_total
            THEN FindLoop(cols, sorted_items, 1, patterns, type_filter, FALSE)
            ELSE None))

\* The first row with type Section and group GrandTotal: its Summary's
\* ColData, <<>> when there is no such row.
RECURSIVE TotalRowFirstSection(_, _)
TotalRowFirstSection(rows, k) ==
    IF k > Len(rows) THEN <<>>
    ELSE IF Get(rows[k], "type", "") = "Section"
         THEN Get(Get(rows[k], "Summary", <<>>), "ColData", <<>>)
         ELSE TotalRowFirstSection(rows, k + 1)

RECURSIVE TotalRow(_, _)
TotalRow(rows, k) ==
    IF k > Len(rows) THEN <<>>
    ELSE IF /\ Get(rows[k], "type", "") = "Section"
            /\ Get(rows[k], "group", "") = "GrandTotal"
         THEN Get(Get(rows[k], "Summary", <<>>), "ColData", <<>>)
         ELSE TotalRow(rows, k + 1)

\* float(value_str) if value_str else 0, the slot left as it is (current)
\* on ValueError, on idx None and on an index beyond the row.
ReadTotalCell(total_row, idx, current) ==
    IF idx = None \/ idx > Len(total_row) THEN current
    ELSE LET value_str == Get(total_row[idx], "value", "0")
         IN  IF value_str = "" \/ value_str = Null THEN 0
             ELSE Bind(ParseFloat(value_str), LAMBDA f :
                      IF f.ok THEN f.v ELSE current)

IsCommercialPattern(pt) == Contains(pt, "Commercial")
IsResidentialPattern(pt) == Contains(pt, "Residential")
IsTotalPattern(pt) ==
    /\ StartsWith(pt, "Total ")
    /\ ~Contains(pt, "Commercial")
    /\ ~Contains(pt, "Residential")

ZeroCategory == [commercial |-> 0, residential |-> 0, total |-> 0]
ZeroTotals ==
    [water |-> ZeroCategory, fire |-> ZeroCategory, mold_bio |-> ZeroCategory,
     other |-> ZeroCategory, subcontract |-> ZeroCategory,
     reconstruction |-> ZeroCategory]

\* One iteration of "for category, patterns in CATEGORY_PATTERNS.items()".
FindAndRead(cols, col_mapping, total_row, patterns) ==
    Bind(find_category_column(cols, col_mapping, patterns, "", TRUE),
         LAMBDA idx : ReadTotalCell(total_row, idx, 0))

CategoryTotals(cols, col_mapping, total_row, patterns) ==
    Bind(FindAndRead(cols, col_mapping, total_row,
                     SelectSeq(patterns, IsCommercialPattern)),
         LAMBDA commercial :
    Bind(FindAndRead(cols, col_mapping, total_row,
                     SelectSeq(patterns, IsResidentialPattern)),
         LAMBDA residential :
    Bind(FindAndRead(cols, col_mapping, total_row,
                     SelectSeq(patterns, IsTotalPattern)),
         LAMBDA total :
            [commercial |-> commercial,
             residential |-> residential,
             total |-> IF FloatGt(commercial, 0) \/ FloatGt(residential, 0)
                       THEN FloatAdd(commercial, residential)
                       ELSE total])))

extract_category_totals(rvcr_data) ==
    Bind(ColumnTitles(rvcr_data), LAMBDA cols :
    Bind(extract_column_mapping(rvcr_data), LAMBDA col_mapping :
    Bind(TotalRow(TopRows(rvcr_data), 1), LAMBDA total_row :
        LET T(c) == CategoryTotals(cols, col_mapping, total_row,
                                   CATEGORY_PATTERNS[c])
        IN  IF total_row = <<>> THEN ZeroTotals
            ELSE [water |-> T("water"), fire |-> T("fire"),
                  mold_bio |-> T("mold_bio"), other |-> T("other"),
                  subcontract |-> T("subcontract"),
                  reconstruction |-> T("reconstruction")])))

\* The index of the first "-" of s at or after position i; Len(s) + 1 when
\* there is none.
DashFrom(s, i) ==
    LET ds == {j \in i..Len(s) : CharAt(s, j) = "-"}
    IN  IF ds = {} THEN Len(s) + 1 ELSE CHOOSE j \in ds : \A k \in ds : j <= k

\* extract_period_info: [month, year] from Header.EndPeriod ("YYYY-MM-DD");
\* a part that is no integer leaves what was not yet assigned at None.
extract_period_info(rvcr_data) ==
    LET end_period == Get(Get(rvcr_data, "Header", <<>>), "EndPeriod", "")
        d1 == DashFrom(end_period, 1)
        d2 == DashFrom(end_period, d1 + 1)
        y == ParseInt(SubSeq(end_period, 1, d1 - 1))
        m == ParseInt(SubSeq(end_period, d1 + 1, d2 - 1))
    IN  IF end_period = "" \/ d1 > Len(end_period)
        THEN [month |-> None, year |-> None]
        ELSE IF ~y.ok THEN [month |-> None, year |-> None]
        ELSE IF ~m.ok THEN [month |-> None, year |-> y.v]
        ELSE [month |-> m.v, year |-> y.v]

(***************************************************************************)
(* services/payment_summary_generator.py: calculate_payment_summary.       *)
(* The description strings of the result are left out.                     *)
(***************************************************************************)
\* calc_subcategory_royalties: round(amount * rate, 2), where rate is
\* royalty / class_total when class_total > 0 and 0 otherwise.
AllocatedRoyalty(amount, royalty, class_total) ==
    IF class_total > 0 THEN MulDivRound(amount, royalty, class_total) ELSE 0

calc_subcategory_royalties(cat_data, royalty, class_total) ==
    [commercial |-> AllocatedRoyalty(cat_data.commercial, royalty, class_total),
     residential |-> AllocatedRoyalty(cat_data.residential, royalty, class_total),
     total |-> AllocatedRoyalty(cat_data.total, royalty, class_total)]

StandardCategories == {"water", "fire", "mold_bio", "other"}

\* period_month / period_year: the argument, else the document's, else the
\* wall clock's ("extracted or datetime.now()": a 0 counts as absent).
ResolvePeriod(arg, extracted, clock) ==
    IF arg # None THEN arg
    ELSE IF extracted # None /\ extracted # 0 THEN extracted
    ELSE clock

\* total_fees_payable: the four fees added up (and a variant that leaves
\* the reduced brand-fund fee out).
TotalFeesPayableWithoutReduced(fixed_fee, national_accounts_fee, national_brand_fee, national_brand_reduced_fee) ==
    fixed_fee + national_accounts_fee + national_brand_fee

TotalFeesPayable(fixed_fee, national_accounts_fee, national_brand_fee, national_brand_reduced_fee) ==
    fixed_fee + national_accounts_fee + national_brand_fee
        + national_brand_reduced_fee

\* The summary from the two extracted category totals and the period.
SummaryFromRoyalties(categories, ytd_categories, period_month, period_year, standard_royalty, reduced_royalty, brand_fund) ==
    LET standard_rate_total ==
            categories["water"].total + categories["fire"].total
                + categories["mold_bio"].total + categories["other"].total
        reduced_rate_total ==
            categories["subcontract"].total + categories["reconstruction"].total
        grand_total == standard_rate_total + reduced_rate_total
        ytd_standard_rate ==
            ytd_categories["water"].total + ytd_categories["fire"].total
                + ytd_categories["mold_bio"].total + ytd_categories["other"].total
        ytd_reduced_rate ==
            ytd_categories["subcontract"].total
                + ytd_categories["reconstruction"].total
        ytd_grand_total == ytd_standard_rate + ytd_reduced_rate
        royalties(c) ==
            IF c \in StandardCategories
            THEN calc_subcategory_royalties(categories[c],
                     standard_royalty.royalty, standard_rate_total)
            ELSE calc_subcategory_royalties(categories[c],
                     reduced_royalty.royalty, reduced_rate_total)
        \* One entry of the result's "categories".
        entry(c) ==
            Bind(royalties(c), LAMBDA roy :
                [commercial |-> [this_month |-> categories[c].commercial,
                                 ytd |-> ytd_categories[c].commercial,
                                 royalty |-> roy.commercial],
                 residential |-> [this_month |-> categories[c].residential,
                                  ytd |-> ytd_categories[c].residential,
                                  royalty |-> roy.residential],
                 total |-> [this_month |-> categories[c].total,
                            ytd |-> ytd_categories[c].total,
                            royalty |-> roy.total]])
        fixed_fee == standard_royalty.fixed_fee
        national_accounts_fee ==
            MulRate(standard_rate_total, NATIONAL_ACCOUNTS_FEE_RATE)
        national_brand_fee == brand_fund.fee
        national_brand_reduced_fee ==
            MulRate(reduced_rate_total, NATIONAL_BRAND_FUND_REDUCED_RATE)
        total_royalty_payable == standard_royalty.royalty + reduced_royalty.royalty
        total_fees_payable ==
            TotalFeesPayable(fixed_fee, national_accounts_fee,
                             national_brand_fee, national_brand_reduced_fee)
        grand_total_payable == total_royalty_payable + total_fees_payable
    IN  [period_month |-> period_month,
         period_year |-> period_year,
         categories |->
            [water |-> entry("water"), fire |-> entry("fire"),
             mold_bio |-> entry("mold_bio"), other |-> entry("other"),
             subcontract |-> entry("subcontract"),
             reconstruction |-> entry("reconstruction")],
         subtotals |->
            [standard_rate |-> [this_month |-> standard_rate_total,
                                ytd |-> ytd_standard_rate],
             reduced_rate |-> [this_month |-> reduced_rate_total,
                               ytd |-> ytd_reduced_rate],
             total |-> [this_month |-> grand_total, ytd |-> ytd_grand_total]],
         royalties |->
            [standard_rate |-> [amount |-> standard_royalty.royalty,
                                rate |-> standard_royalty.rate,
                                is_minimum |-> standard_royalty.is_minimum],
             reduced_rate |-> [amount |-> reduced_royalty.royalty,
                               excess_amount |-> reduced_royalty.excess_amount],
             total |-> total_royalty_payable],
         fees |->
            [fixed_fee |-> fixed_fee,
             national_accounts |-> national_accounts_fee,
             national_brand_fund |->
                [amount |-> national_brand_fee,
                 capped |-> brand_fund.capped,
                 remaining_cap |-> brand_fund.remaining_cap,
                 annual_cap |-> brand_fund.annual_cap],
             national_brand_reduced |-> national_brand_reduced_fee,
             total |-> total_fees_payable],
         grand_total_payable |-> grand_total_payable]

\* YTD before this month, for the cap: max(0, ytd - this month).
YtdStandardBeforeZero(ytd_standard_rate, standard_rate_total) == 0
YtdStandardBefore(ytd_standard_rate, standard_rate_total) ==
    Max(0, ytd_standard_rate - standard_rate_total)

SummaryFromTotals(categories, ytd_categories, period_month, period_year) ==
    LET standard_rate_total ==
            categories["water"].total + categories["fire"].total
                + categories["mold_bio"].total + categories["other"].total
        reduced_rate_total ==
            categories["subcontract"].total + categories["reconstruction"].total
        ytd_standard_rate ==
            ytd_categories["water"].total + ytd_categories["fire"].total
                + ytd_categories["mold_bio"].total + ytd_categories["other"].total
        ytd_standard_before ==
            YtdStandardBefore(ytd_standard_rate, standard_rate_total)
    IN  Bind(calculate_standard_rate_royalty(standard_rate_total),
             LAMBDA standard_royalty :
        Bind(calculate_reduced_rate_royalty(reduced_rate_total),
             LAMBDA reduced_royalty :
        Bind(calculate_national_brand_fund_fee(standard_rate_total,
                 ytd_standard_before, period_year),
             LAMBDA brand_fund :
                SummaryFromRoyalties(categories, ytd_categories, period_month,
                    period_year, standard_royalty, reduced_royalty,
                    brand_fund))))

calculate_payment_summary(lm_data, y_data, p_month, p_year, clock) ==
    Bind(IF p_month = None \/ p_year = None
         THEN extract_period_info(lm_data)
         ELSE [month |-> None, year |-> None],
         LAMBDA extracted :
    Bind(extract_category_totals(lm_data), LAMBDA categories :
    Bind(extract_category_totals(y_data), LAMBDA ytd_categories :
        SummaryFromTotals(categories, ytd_categories,
            ResolvePeriod(p_month, extracted.month, clock.month),
            ResolvePeriod(p_year, extracted.year, clock.year)))))

(***************************************************************************)
(* routes/payment_summary.py: the endpoint's copy of the fee, of the       *)
(* extractor (exact column titles) and of calculate_payment_summary.  Its  *)
(* reduced-rate royalty is the code of the service copy.                   *)
(***************************************************************************)
NATIONAL_BRAND_FUND_CAP_2025 == 145000000

routes_calculate_national_brand_fund_fee(this_month, ytd_before, cap) ==
    LET remaining_cap == Max(0, cap - ytd_before)
    IN  IF this_month <= 0
        THEN [fee |-> 0, capped |-> FALSE, remaining_cap |-> remaining_cap]
        ELSE IF remaining_cap <= 0
        THEN [fee |-> 0, capped |-> TRUE, remaining_cap |-> 0]
        ELSE LET applicable_amount == Min(this_month, remaining_cap)
                 capped == applicable_amount < this_month
             IN  [fee |-> MulRate(applicable_amount, NATIONAL_BRAND_FUND_RATE),
                  capped |-> capped,
                  remaining_cap |-> IF ~capped
                                    THEN remaining_cap - applicable_amount
                                    ELSE 0]

\* category_map: the column title of a (category, type) slot.
routes_category_map(category, type_key) ==
    CATEGORY_PATTERNS[category][IF type_key = "commercial" THEN 1 ELSE 2]

\* float(value_str) if value_str else 0, and 0 on ValueError.
routes_cell_value(cell) ==
    LET value_str == Get(cell, "value", "0")
    IN  IF value_str = "" \/ value_str = Null THEN 0
        ELSE Bind(ParseFloat(value_str), LAMBDA f : IF f.ok THEN f.v ELSE 0)

\* "for i, col_title in enumerate(col_titles)" for one slot, from column k:
\* the last column of the slot's title within the row decides.
RECURSIVE routes_slot_from(_, _, _, _, _)
routes_slot_from(col_titles, total_row, title, k, current) ==
    IF k > Len(col_titles) THEN current
    ELSE routes_slot_from(col_titles, total_row, title, k + 1,
            IF col_titles[k] = title /\ k <= Len(total_row)
            THEN routes_cell_value(total_row[k])
            ELSE current)

routes_extract_category_totals(rvcr_data) ==
    Bind(ColumnTitles(rvcr_data), LAMBDA col_titles :
    Bind(TotalRow(TopRows(rvcr_data), 1), LAMBDA total_row :
        LET V(c, t) == IF total_row = <<>> THEN 0
                       ELSE routes_slot_from(col_titles, total_row,
                                routes_category_map(c, t), 1, 0)
            T(c) == [commercial |-> V(c, "commercial"),
                     residential |-> V(c, "residential")]
        IN  [water |-> T("water"), fire |-> T("fire"),
             mold_bio |-> T("mold_bio"), other |-> T("other"),
             subcontract |-> T("subcontract"),
             reconstruction |-> T("reconstruction")]))

\* YTD before this month in the endpoint's copy: the plain difference.
routes_ytd_standard_before(ytd_standard_rate, standard_rate_total) ==
    ytd_standard_rate - standard_rate_total

routes_summary_from_totals(standard_rate_total, reduced_rate_total, ytd_standard_rate, ytd_reduced_rate) ==
    Bind(routes_calculate_standard_rate_royalty(standard_rate_total),
         LAMBDA standard_royalty :
    Bind(calculate_reduced_rate_royalty(reduced_rate_total),
         LAMBDA reduced_royalty :
    Bind(routes_calculate_national_brand_fund_fee(standard_rate_total,
             routes_ytd_standard_before(ytd_standard_rate, standard_rate_total),
             NATIONAL_BRAND_FUND_CAP_2025),
         LAMBDA brand_fund :
        LET fixed_fee == standard_royalty.fixed_fee
            national_accounts_fee ==
                MulRate(standard_rate_total, NATIONAL_ACCOUNTS_FEE_RATE)
            national_brand_reduced_fee ==
                MulRate(reduced_rate_total, NATIONAL_BRAND_FUND_REDUCED_RATE)
            total_royalty_payable ==
                standard_royalty.royalty + reduced_royalty.royalty
            total_fees_payable ==
                fixed_fee + national_accounts_fee + brand_fund.fee
                    + national_brand_reduced_fee
        IN  [computed |-> TRUE,
             subtotals |->
                [standard_rate |-> [this_month |-> standard_rate_total,
                                    ytd |-> ytd_standard_rate],
                 reduced_rate |-> [this_month |-> reduced_rate_total,
                                   ytd |-> ytd_reduced_rate],
                 total |-> [this_month |-> standard_rate_total + reduced_rate_total,
                            ytd |-> ytd_standard_rate + ytd_reduced_rate]],
             royalties |->
                [standard_rate |-> [amount |-> standard_royalty.royalty],
                 reduced_rate |-> [amount |-> reduced_royalty.royalty],
                 total |-> total_royalty_payable],
             fees |->
                [fixed_fee |-> fixed_fee,
                 national_accounts |-> national_accounts_fee,
                 national_brand_fund |->
                    [amount |-> brand_fund.fee,
                     capped |-> brand_fund.capped,
                     remaining_cap |-> brand_fund.remaining_cap],
                 national_brand_reduced |-> national_brand_reduced_fee,
                 total |-> total_fees_payable],
             grand_total_payable |-> total_royalty_payable + total_fees_payable])))

\* commercial + residential of one category.
routes_category_total(categories, c) ==
    categories[c].commercial + categories[c].residential

routes_standard_rate_total(categories) ==
    routes_category_total(categories, "water")
        + routes_category_total(categories, "fire")
        + routes_category_total(categories, "mold_bio")
        + routes_category_total(categories, "other")

routes_reduced_rate_total(categories) ==
    routes_category_total(categories, "subcontract")
        + routes_category_total(categories, "reconstruction")

routes_calculate_payment_summary(lm_data, y_data) ==
    Bind(routes_extract_category_totals(lm_data), LAMBDA categories :
    Bind(routes_extract_category_totals(y_data), LAMBDA ytd_categories :
        routes_summary_from_totals(
            routes_standard_rate_total(categories),
            routes_reduced_rate_total(categories),
            routes_standard_rate_total(ytd_categories),
            routes_reduced_rate_total(ytd_categories))))

(***************************************************************************)
(* The documents of the payment-summary calls: ClassSales reports built    *)
(* from a column layout and the amounts of the grand-total row.            *)
(***************************************************************************)
Col(title, cat, kind) == [title |-> title, cat |-> cat, kind |-> kind]

\* The columns of one category in a layout: "total" (Total Commercial - X,
\* Total Residential - X), "bare" (Commercial - X, Residential - X), "both"
\* (the bare columns, holding the class's own amount, before the Total
\* ones), "full" (the Total ones and the category's Total N - X column).
CategoryColumns(layout, c) ==
    LET P == CATEGORY_PATTERNS[c]
    IN  CASE layout = "total" ->
                <<Col(P[1], c, "commercial"), Col(P[2], c, "residential")>>
          [] layout = "bare" ->
                <<Col(P[3], c, "commercial"), Col(P[4], c, "residential")>>
          [] layout = "both" ->
                <<Col(P[3], c, "own"), Col(P[1], c, "commercial"),
                  Col(P[4], c, "own"), Col(P[2], c, "residential")>>
          [] layout = "full" ->
                <<Col(P[1], c, "commercial"), Col(P[2], c, "residential"),
                  Col(P[5], c, "total")>>

RECURSIVE LayoutColumnsFrom(_, _)
LayoutColumnsFrom(layout, k) ==
    IF k > Len(Categories) THEN <<Col("TOTAL", "", "grand")>>
    ELSE CategoryColumns(layout, Categories[k]) \o LayoutColumnsFrom(layout, k + 1)

LayoutColumns(layout) == <<Col("", "", "label")>> \o LayoutColumnsFrom(layout, 1)

Layouts == {"total", "bare", "both", "full"}

\* Amounts of a grand-total row: per category the strings of the
\* commercial, residential and total cells.
Amt(c, r, t) == [commercial |-> c, residential |-> r, total |-> t]
Blank == Amt("", "", "")
Zero == Amt("0.00", "0.00", "0.00")
Amounts(w, f, m, o, s, r) ==
    [c \in DOMAIN CATEGORY_PATTERNS |->
        CASE c = "water" -> w [] c = "fire" -> f [] c = "mold_bio" -> m
          [] c = "other" -> o [] c = "subcontract" -> s
          [] c = "reconstruction" -> r]

ScenarioAmounts ==
    { Amounts(Amt("10000.00", "2000.00", "12000.00"), Zero, Zero, Zero,
              Amt("5000.00", "0.00", "5000.00"), Zero),
      Amounts(Amt("10000", "2000.0", "12000"), Blank, Blank, Blank,
              Amt("5000.00", "", "5000.00"), Blank) }

MonthAmounts ==
    ScenarioAmounts \cup
    { Amounts(Blank, Blank, Blank, Blank, Blank, Blank),
      Amounts(Amt("12849.99", "", "12849.99"), Blank, Blank, Blank, Blank,
              Amt("32124.99", "0.01", "32125.00")),
      Amounts(Amt("80000.00", "10000.00", "90000.00"),
              Amt("30000.50", "", "30000.50"), Blank, Blank, Blank,
              Amt("40000.00", "", "40000.00")),
      Amounts(Amt("-500.00", "", "-500.00"), Blank, Blank,
              Amt("100.00", "-300.00", "-200.00"), Blank, Blank) }

YtdAmounts ==
    { Amounts(Amt("100000.00", "20000.00", "120000.00"), Blank, Blank, Blank,
              Amt("50000.00", "", "50000.00"), Blank),
      Amounts(Amt("10000.00", "2000.00", "12000.00"), Zero, Zero, Zero,
              Amt("5000.00", "0.00", "5000.00"), Zero),
      Amounts(Amt("5000.00", "", "5000.00"), Blank, Blank, Blank, Blank, Blank),
      Amounts(Amt("1449900.00", "", "1449900.00"), Blank, Blank, Blank, Blank,
              Blank),
      Amounts(Amt("1500000.00", "7000.00", "1507000.00"), Blank, Blank, Blank,
              Blank, Blank) }

CellOf(col, amounts) ==
    CASE col.kind = "label" -> "TOTAL"
      [] col.kind = "grand" -> ""
      [] col.kind = "own" -> "123.45"
      [] col.kind = "commercial" -> amounts[col.cat].commercial
      [] col.kind = "residential" -> amounts[col.cat].residential
      [] col.kind = "total" -> amounts[col.cat].total

\* A ClassSales report: a customer section and the GrandTotal section.
ClassSalesDoc(layout, amounts, end_period) ==
    LET cols == LayoutColumns(layout)
    IN  [Header |-> [EndPeriod |-> end_period],
         Columns |-> [Column |-> [i \in 1..Len(cols) |->
                                    [ColTitle |-> cols[i].title]]],
         Rows |-> [Row |->
            << [type |-> "Section", group |-> "",
                Summary |-> [ColData |-> [i \in 1..Len(cols) |->
                    [value |-> IF i = 1 THEN "Total Customer" ELSE "999.00"]]]],
               [type |-> "Section", group |-> "GrandTotal",
                Summary |-> [ColData |-> [i \in 1..Len(cols) |->
                    [value |-> CellOf(cols[i], amounts)]]]] >>]]

EndPeriods == {"2025-10-31", "2017-03-31", ""}
PeriodArgs == {[month |-> None, year |-> None], [month |-> 9, year |-> 2024]}
Clocks == {[month |-> 11, year |-> 2026], [month |-> 1, year |-> 2027]}

\* No call of a royalty function has been made.
NoArgs == [volume |-> 0, ytd_before |-> 0, year |-> 0]
NoRet == [royalty |-> 0]

RoyaltyIdle ==
    /\ fn = ""
    /\ args = NoArgs
    /\ ret = NoRet

\* No call of the tree walker, no structure extracted.
EmptyTotals == <<>>

WalkerIdle ==
    /\ totals = EmptyTotals
    /\ calls = <<>>

StructureIdle ==
    /\ report_pc = "loaded"
    /\ report_lm_categories = <<>>
    /\ report_ytd_categories = <<>>
    /\ report_categories = <<>>

ReportIdle == WalkerIdle /\ StructureIdle

NoSummary == [computed |-> FALSE]

SummaryIdle ==
    /\ last_month_data = ClassSalesDoc("total", Amounts(Blank, Blank, Blank, Blank, Blank, Blank), "")
    /\ ytd_data = last_month_data
    /\ period_arg = [month |-> None, year |-> None]
    /\ now = [month |-> 11, year |-> 2026]
    /\ summary = NoSummary
    /\ routes_summary = NoSummary
    /\ months = <<>>

InitSummary ==
    /\ RoyaltyIdle
    /\ ReportIdle
    /\ \E layout \in Layouts, m \in MonthAmounts, y \in YtdAmounts,
          e \in EndPeriods :
          /\ last_month_data = ClassSalesDoc(layout, m, e)
          /\ ytd_data = ClassSalesDoc(layout, y, e)
    /\ period_arg \in PeriodArgs
    /\ now \in Clocks
    /\ summary = NoSummary
    /\ routes_summary = NoSummary
    /\ months = <<>>

\* The call of calculate_payment_summary on the two documents.
CalculatePaymentSummary ==
    /\ summary = NoSummary
    /\ summary' = calculate_payment_summary(last_month_data, ytd_data,
                      period_arg.month, period_arg.year, now)
    /\ UNCHANGED <<last_month_data, ytd_data, period_arg, now, routes_summary,
                   months>>
    /\ UNCHANGED notSummaryVars

NextSummary == CalculatePaymentSummary

SpecSummary == InitSummary /\ [][NextSummary]_vars

(***************************************************************************)
(* Claims about the payment summary (checked under SpecSummary).           *)
(***************************************************************************)
\* The standard-rate volume a grand-total row states, from its amounts.
StatedStandard(amounts) ==
    LET v(str) == IF str = "" THEN 0 ELSE ParseFloat(str).v
    IN  v(amounts["water"].commercial) + v(amounts["water"].residential)
        + v(amounts["fire"].commercial) + v(amounts["fire"].residential)
        + v(amounts["mold_bio"].commercial) + v(amounts["mold_bio"].residential)
        + v(amounts["other"].commercial) + v(amounts["other"].residential)

\* The Last-Month documents of the end-to-end scenario, and the YTD
\* documents whose standard-rate volume is below the cap of a year.
C5_ScenarioDocs ==
    {ClassSalesDoc(l, a, e) : l \in Layouts, a \in ScenarioAmounts, e \in EndPeriods}

C5_YtdBelowCap(year) ==
    {ClassSalesDoc(l, a, e) :
        l \in Layouts,
        a \in {y \in YtdAmounts : StatedStandard(y) < get_national_brand_fund_cap(year)},
        e \in EndPeriods}

C5_Case ==
    /\ summary # NoSummary
    /\ last_month_data \in C5_ScenarioDocs
    /\ ytd_data \in C5_YtdBelowCap(summary.period_year)

\* C5: end to end, Water Commercial 10,000, Water Residential 2,000,
\* Subcontract Commercial 5,000, all else 0 and a YTD below the cap give
\* standard total 12,000, royalty 1,200.00, fixed fee 45, reduced total
\* 5,000, royalty 200.00, national accounts 60.00, brand fund 300.00 not
\* capped, reduced brand fund 12.50, fees 417.50, payable 1,817.50.
C5_EndToEnd ==
    C5_Case =>
        /\ summary.subtotals.standard_rate.this_month = 1200000
        /\ summary.royalties.standard_rate.amount = 120000
        /\ summary.fees.fixed_fee = 4500
        /\ summary.subtotals.reduced_rate.this_month = 500000
        /\ summary.royalties.reduced_rate.amount = 20000
        /\ summary.fees.national_accounts = 6000
        /\ summary.fees.national_brand_fund.amount = 30000
        /\ summary.fees.national_brand_fund.capped = FALSE
        /\ summary.fees.national_brand_reduced = 1250
        /\ summary.fees.total = 41750
        /\ summary.grand_total_payable = 181750

\* C5 witness: the scenario has been computed, from a report that carries
\* both the bare and the Total columns.
C5_Witness ==
    /\ C5_Case
    /\ last_month_data \in
          {ClassSalesDoc("both", a, e) : a \in ScenarioAmounts, e \in EndPeriods}
    /\ summary.grand_total_payable = 181750

Abs(x) == IF x < 0 THEN 0 - x ELSE x

\* The allocations of a rate class added up.
StandardAllocated ==
    summary.categories.water.total.royalty
        + summary.categories.fire.total.royalty
        + summary.categories.mold_bio.total.royalty
        + summary.categories.other.total.royalty

ReducedAllocated ==
    summary.categories.subcontract.total.royalty
        + summary.categories.reconstruction.total.royalty

\* C11: within each rate class the per-category royalty allocations sum to
\* the tier-computed royalty of the class, up to one cent per category, for
\* every input.
C11_AllocationsSum ==
    summary # NoSummary =>
        /\ Abs(StandardAllocated - summary.royalties.standard_rate.amount) <= 4
        /\ Abs(ReducedAllocated - summary.royalties.reduced_rate.amount) <= 2

\* C12: fees.total is the sum of the four fees, royalties.total the sum of
\* the two royalties, grand_total_payable the sum of the two totals, and the
\* fixed fee is the one of the tier matched by the month's standard-rate
\* subtotal.
C12_Totals ==
    summary # NoSummary =>
        /\ summary.fees.total =
              summary.fees.fixed_fee + summary.fees.national_accounts
                  + summary.fees.national_brand_fund.amount
                  + summary.fees.national_brand_reduced
        /\ summary.royalties.total =
              summary.royalties.standard_rate.amount
                  + summary.royalties.reduced_rate.amount
        /\ summary.grand_total_payable =
              summary.royalties.total + summary.fees.total
        /\ summary.fees.fixed_fee =
              calculate_standard_rate_royalty(
                  summary.subtotals.standard_rate.this_month).fixed_fee

\* C12 witness: a summary with all four fees and both royalties positive.
C12_Witness ==
    /\ summary # NoSummary
    /\ summary.fees.fixed_fee > 0
    /\ summary.fees.national_accounts > 0
    /\ summary.fees.national_brand_fund.amount > 0
    /\ summary.fees.national_brand_reduced > 0
    /\ summary.royalties.standard_rate.amount > 0
    /\ summary.royalties.reduced_rate.amount > 0

\* C14: calculate_payment_summary is a function of its arguments: the
\* summary returned for the documents and the (possibly omitted) period is
\* the summary the same call returns at any other time of the wall clock.
C14_Deterministic ==
    summary # NoSummary =>
        \A clock \in Clocks :
            calculate_payment_summary(last_month_data, ytd_data,
                period_arg.month, period_arg.year, clock) = summary

(***************************************************************************)
(* The endpoint's copy as a system: its calculate_payment_summary is       *)
(* called on the two documents (it takes the period as given and reads no  *)
(* clock).                                                                 *)
(***************************************************************************)
InitRoutes ==
    /\ RoyaltyIdle
    /\ ReportIdle
    /\ \E layout \in Layouts, m \in MonthAmounts, y \in YtdAmounts :
          /\ last_month_data = ClassSalesDoc(layout, m, "2025-10-31")
          /\ ytd_data = ClassSalesDoc(layout, y, "2025-10-31")
    /\ period_arg = [month |-> 9, year |-> 2024]
    /\ now = [month |-> 11, year |-> 2026]
    /\ summary = NoSummary
    /\ routes_summary = NoSummary
    /\ months = <<>>

RoutesCalculatePaymentSummary ==
    /\ routes_summary = NoSummary
    /\ routes_summary' = routes_calculate_payment_summary(last_month_data, ytd_data)
    /\ UNCHANGED <<last_month_data, ytd_data, period_arg, now, summary, months>>
    /\ UNCHANGED notSummaryVars

NextRoutes == RoutesCalculatePaymentSummary

SpecRoutes == InitRoutes /\ [][NextRoutes]_vars

\* C13: the YTD-before-this-month value handed to the brand-fund fee is
\* max(0, YTD standard - this month's standard): it is never negative, and
\* the remaining headroom a summary reports is never more than the annual
\* cap, in the service copy and in the endpoint's copy.
C13_YtdBeforeClamped ==
    /\ summary # NoSummary =>
          LET before == YtdStandardBefore(summary.subtotals.standard_rate.ytd,
                            summary.subtotals.standard_rate.this_month)
              cap == summary.fees.national_brand_fund.annual_cap
          IN  /\ before >= 0
              /\ Max(0, cap - before) <= cap
              /\ summary.fees.national_brand_fund.remaining_cap <= cap
    /\ routes_summary # NoSummary =>
          LET before == routes_ytd_standard_before(
                            routes_summary.subtotals.standard_rate.ytd,
                            routes_summary.subtotals.standard_rate.this_month)
              cap == NATIONAL_BRAND_FUND_CAP_2025
          IN  /\ before >= 0
              /\ Max(0, cap - before) <= cap
              /\ routes_summary.fees.national_brand_fund.remaining_cap <= cap

(***************************************************************************)
(* One calendar year of monthly calculations: each month the YTD document  *)
(* holds the volumes of the year up to and including the month, and        *)
(* calculate_payment_summary charges the brand-fund fee of the month.      *)
(***************************************************************************)
MaxMonths == 4

\* Standard-rate volumes of a month (cents), none negative.
MonthVolumes == {0, 100, 45000000, 50000000, 145000000}
CapYears == {2024, 2025, 2027}

RECURSIVE VolumeUpTo(_, _)
\* The standard-rate volume of the first k months.
VolumeUpTo(log, k) ==
    IF k = 0 THEN 0 ELSE log[k].this_month + VolumeUpTo(log, k - 1)

RECURSIVE ChargedUpTo(_, _)
\* The volume the brand-fund fee was charged on in the first k months.
ChargedUpTo(log, k) ==
    IF k = 0 THEN 0 ELSE log[k].brand_fund.applicable + ChargedUpTo(log, k - 1)

InitYear ==
    /\ RoyaltyIdle
    /\ ReportIdle
    /\ last_month_data = ClassSalesDoc("total", Amounts(Blank, Blank, Blank, Blank, Blank, Blank), "")
    /\ ytd_data = last_month_data
    /\ period_arg \in {[month |-> 1, year |-> y] : y \in CapYears}
    /\ now = [month |-> 11, year |-> 2026]
    /\ summary = NoSummary
    /\ routes_summary = NoSummary
    /\ months = <<>>

\* The calculation of the next month of the year (lines 542-586): the YTD
\* standard-rate total is the year's volume including this month.
MonthlyCalculation ==
    /\ Len(months) < MaxMonths
    /\ \E standard_rate_total \in MonthVolumes :
          LET ytd_standard_rate ==
                  VolumeUpTo(months, Len(months)) + standard_rate_total
              ytd_standard_before ==
                  YtdStandardBefore(ytd_standard_rate, standard_rate_total)
          IN  months' = Append(months,
                  [period_month |-> period_arg.month,
                   this_month |-> standard_rate_total,
                   ytd_before |-> ytd_standard_before,
                   brand_fund |-> calculate_national_brand_fund_fee(
                                      standard_rate_total, ytd_standard_before,
                                      period_arg.year)])
    /\ period_arg' = [period_arg EXCEPT !.month = period_arg.month + 1]
    /\ UNCHANGED <<last_month_data, ytd_data, now, summary, routes_summary>>
    /\ UNCHANGED notSummaryVars

NextYear == MonthlyCalculation

SpecYear == InitYear /\ [][NextYear]_vars

\* C19: over the months of one calendar year, with YTD-before the sum of
\* the earlier months' volumes, the volume the brand-fund fee has been
\* charged on never exceeds the year's cap, and after a month reported
\* capped every later month of the year has a brand-fund fee of 0.
C19_AnnualCap ==
    /\ ChargedUpTo(months, Len(months))
          <= get_national_brand_fund_cap(period_arg.year)
    /\ \A i, j \in 1..Len(months) :
          (i < j /\ months[i].brand_fund.capped) =>
              months[j].brand_fund.fee = 0
    /\ \A i \in 1..Len(months) :
          /\ months[i].ytd_before = VolumeUpTo(months, i - 1)
          /\ months[i].brand_fund.fee =
                MulRate(months[i].brand_fund.applicable, NATIONAL_BRAND_FUND_RATE)

\* C19 witness: a month crossed the cap (it was charged on a part of its
\* volume) and a later month with revenue was charged nothing; the charged
\* volume is the cap.
C19_Witness ==
    /\ \E i, j \in 1..Len(months) :
          /\ i < j
          /\ months[i].brand_fund.capped
          /\ months[i].brand_fund.fee > 0
          /\ months[j].this_month > 0
          /\ months[j].brand_fund.fee = 0
    /\ ChargedUpTo(months, Len(months))
          = get_national_brand_fund_cap(period_arg.year)

(***************************************************************************)
(* The royalty calculator as a system: each action is one call of one of   *)
(* the pure functions on inputs drawn from bounded sets.                   *)
(***************************************************************************)
TierBounds == {STANDARD_RATE_TIERS[i].max : i \in 1..(Len(STANDARD_RATE_TIERS) - 1)}

Volumes ==
    UNION {(b - VolumeDelta)..(b + VolumeDelta) :
              b \in TierBounds \cup {0, 1200000, 500000, 25000000}}

Years == 2015..2028

\* This-month volumes and YTD-before offsets (from the year's cap) of the
\* brand-fund calls.
FundVolumes == {-100, 0, 1, 9999, 10000, 10001, 50000, 1200000}
FundOffsets == {-10001, -10000, -9999, -50000, -1, 0, 1, 10000}
FundYtdBefore(year) ==
    {get_national_brand_fund_cap(year) + o : o \in FundOffsets} \cup {0, -500}

InitRoyalty ==
    /\ RoyaltyIdle
    /\ SummaryIdle
    /\ ReportIdle

CallStandardRoyalty ==
    \E v \in Volumes :
        /\ fn' = "calculate_standard_rate_royalty"
        /\ args' = [NoArgs EXCEPT !.volume = v]
        /\ ret' = calculate_standard_rate_royalty(v)
        /\ UNCHANGED notRoyaltyVars

CallRoutesStandardRoyalty ==
    \E v \in Volumes :
        /\ fn' = "routes.calculate_standard_rate_royalty"
        /\ args' = [NoArgs EXCEPT !.volume = v]
        /\ ret' = routes_calculate_standard_rate_royalty(v)
        /\ UNCHANGED notRoyaltyVars

CallReducedRoyalty ==
    \E v \in Volumes :
        /\ fn' = "calculate_reduced_rate_royalty"
        /\ args' = [NoArgs EXCEPT !.volume = v]
        /\ ret' = calculate_reduced_rate_royalty(v)
        /\ UNCHANGED notRoyaltyVars

CallBrandFundFee ==
    \E y \in Years, v \in FundVolumes :
        \E ytd \in FundYtdBefore(y) :
            /\ fn' = "calculate_national_brand_fund_fee"
            /\ args' = [volume |-> v, ytd_before |-> ytd, year |-> y]
            /\ ret' = calculate_national_brand_fund_fee(v, ytd, y)
            /\ UNCHANGED notRoyaltyVars

NextRoyalty ==
    \/ CallStandardRoyalty
    \/ CallRoutesStandardRoyalty
    \/ CallReducedRoyalty
    \/ CallBrandFundFee

SpecRoyalty == InitRoyalty /\ [][NextRoyalty]_vars

(***************************************************************************)
(* The tier lookup on any float: the two copies of                         *)
(* calculate_standard_rate_royalty are called on the volumes above and on  *)
(* float('nan') (the total of a document with a "nan" cell).               *)
(***************************************************************************)
FloatVolumes == Volumes \cup {NaN}

LookupStandardRoyalty ==
    \E v \in FloatVolumes :
        /\ fn' = "calculate_standard_rate_royalty"
        /\ args' = [NoArgs EXCEPT !.volume = v]
        /\ ret' = calculate_standard_rate_royalty(v)
        /\ UNCHANGED notRoyaltyVars

LookupRoutesStandardRoyalty ==
    \E v \in FloatVolumes :
        /\ fn' = "routes.calculate_standard_rate_royalty"
        /\ args' = [NoArgs EXCEPT !.volume = v]
        /\ ret' = routes_calculate_standard_rate_royalty(v)
        /\ UNCHANGED notRoyaltyVars

NextTierLookup == LookupStandardRoyalty \/ LookupRoutesStandardRoyalty

SpecTierLookup == InitRoyalty /\ [][NextTierLookup]_vars

\* No tier of the table takes the volume, and it is not the "no revenue"
\* case either.
NoTierFor(volume) ==
    /\ ~FloatLeq(volume, 0)
    /\ \A i \in 1..Len(STANDARD_RATE_TIERS) :
          ~WithinTier(volume, STANDARD_RATE_TIERS[i])

\* C16: a volume that matches no tier is never priced: when
\* calculate_standard_rate_royalty (either copy) finds no tier for its
\* volume, its outcome is not a returned royalty result.
C16_UnmatchedSurfaced ==
    (/\ fn \in {"calculate_standard_rate_royalty",
                 "routes.calculate_standard_rate_royalty"}
     /\ NoTierFor(args.volume)) => ~Has(ret, "royalty")

(***************************************************************************)
(* Claims about the royalty calculator (checked under SpecRoyalty).        *)
(***************************************************************************)
\* The upper bound of tier i is >= volume (the last tier has none).
UpperBoundAtLeast(i, volume) ==
    STANDARD_RATE_TIERS[i].unbounded \/ STANDARD_RATE_TIERS[i].max >= volume

\* The royalty of tier i for a volume, by the table's two forms.
TierFormula(i, volume) ==
    LET t == STANDARD_RATE_TIERS[i]
    IN  IF t.has_threshold
        THEN t.fixed + RoundDiv((volume - t.threshold) * t.rate, RATE_SCALE)
        ELSE RoundDiv(volume * t.rate, RATE_SCALE)

\* C1: for every volume > 0 the standard-rate calculation prices the volume
\* by exactly the first tier (ascending upper bounds) whose upper bound is
\* >= the volume: royalty by that tier's formula, fixed fee of that tier.  A
\* volume on a boundary (12,849.99) is priced by the lower tier, one cent
\* above it by the next.
C1_TierSelection ==
    /\ \A i \in 1..(Len(STANDARD_RATE_TIERS) - 2) :
           STANDARD_RATE_TIERS[i].max < STANDARD_RATE_TIERS[i + 1].max
    /\ (fn = "calculate_standard_rate_royalty" /\ args.volume > 0) =>
           /\ \E i \in 1..Len(STANDARD_RATE_TIERS) :
                  /\ UpperBoundAtLeast(i, args.volume)
                  /\ \A j \in 1..(i - 1) : ~UpperBoundAtLeast(j, args.volume)
                  /\ ret.matched
                  /\ ret.royalty = TierFormula(i, args.volume)
                  /\ ret.fixed_fee = STANDARD_RATE_TIERS[i].fixed_fee
                  /\ ret.rate = STANDARD_RATE_TIERS[i].rate
           /\ (args.volume = 1284999 => ret.royalty = 128500 /\ ret.fixed_fee = 4500)
           /\ (args.volume = 1285000 => ret.royalty = 115650 /\ ret.fixed_fee = 6500)
           /\ (args.volume = 7495699 => ret.royalty = 524699 /\ ret.rate = 140)
           /\ (args.volume = 7495700 => ret.royalty = 524700 /\ ret.rate = 130)

\* C1 witness: a volume exactly on the first boundary has been priced.
C1_Witness ==
    /\ fn = "calculate_standard_rate_royalty"
    /\ args.volume = 1284999
    /\ ret.fixed_fee = 4500
    /\ ret.royalty = 128500

\* C2: for every volume <= 0 the standard-rate calculation (the service's
\* and the endpoint's copy) returns the minimum royalty 145.00, never zero,
\* with the lowest tier's fixed fee 45.
C2_MinimumRoyalty ==
    (/\ fn \in {"calculate_standard_rate_royalty",
                "routes.calculate_standard_rate_royalty"}
     /\ args.volume <= 0) =>
        /\ ret.royalty = 14500
        /\ ret.fixed_fee = 4500

\* C3: the reduced-rate calculation uses 4% of volume on (0, 32,124.99],
\* the breakpoint included, and 1,285.00 + 3% of the excess above it.
C3_ReducedBreakpoint ==
    (fn = "calculate_reduced_rate_royalty" /\ args.volume > 0) =>
        IF args.volume <= 3212499
        THEN /\ ret.royalty = RoundDiv(args.volume * 80, RATE_SCALE)
             /\ ret.rate_applied = 80
             /\ ret.excess_amount = 0
        ELSE /\ ret.royalty =
                    128500 + RoundDiv((args.volume - 3212499) * 60, RATE_SCALE)
             /\ ret.rate_applied = 60
             /\ ret.excess_amount = args.volume - 3212499

\* C3 witness: the breakpoint itself has been priced at 4%.
C3_Witness ==
    /\ fn = "calculate_reduced_rate_royalty"
    /\ args.volume = 3212499
    /\ ret.rate_applied = 80

\* C4: for this-month volume > 0 the brand-fund fee is 2.5% of
\* min(this-month, max(0, cap(year) - YTD-before)); capped holds exactly
\* when this-month exceeds that headroom, and then remaining_cap = 0.  With
\* YTD-before = cap - 100.00 and this-month = 500.00 the fee is on 100.00.
C4_BrandFundCap ==
    (fn = "calculate_national_brand_fund_fee" /\ args.volume > 0) =>
        LET cap == get_national_brand_fund_cap(args.year)
            headroom == Max(0, cap - args.ytd_before)
            base == Min(args.volume, headroom)
        IN  /\ ret.applicable = base
            /\ ret.fee = RoundDiv(base * 50, RATE_SCALE)
            /\ ret.capped <=> (args.volume > headroom)
            /\ ret.capped => ret.remaining_cap = 0
            /\ ret.annual_cap = cap
            /\ (args.ytd_before = cap - 10000 /\ args.volume = 50000) =>
                   /\ ret.fee = 250
                   /\ ret.capped
                   /\ ret.remaining_cap = 0

\* C4 witness: the month that crosses the cap (YTD-before = cap - 100.00,
\* this month 500.00) has been charged.
C4_Witness ==
    /\ fn = "calculate_national_brand_fund_fee"
    /\ args.volume = 50000
    /\ args.ytd_before = get_national_brand_fund_cap(args.year) - 10000
    /\ ret.capped
    /\ ret.fee = 250


(***************************************************************************)
(* generate_royalty_report.py: strings and currency.                       *)
(***************************************************************************)

\* str.strip(), for the blank character.
Strip(s) ==
    LET solid == {i \in 1..Len(s) : CharAt(s, i) # " "}
    IN  IF solid = {} THEN ""
        ELSE SubSeq(s, CHOOSE i \in solid : \A j \in solid : i <= j,
                       CHOOSE i \in solid : \A j \in solid : i >= j)

\* value.replace(',', ''), from position i on.
RECURSIVE RemoveCommasFrom(_, _)
RemoveCommasFrom(s, i) ==
    IF i > Len(s) THEN ""
    ELSE (IF CharAt(s, i) = "," THEN "" ELSE CharAt(s, i))
            \o RemoveCommasFrom(s, i + 1)

\* format_currency: cents; blank and unparsable text give 0.0.
format_currency(value) ==
    IF value = "" \/ value = Null THEN 0
    ELSE Bind(ParseFloat(RemoveCommasFrom(value, 1)), LAMBDA f :
            IF f.ok THEN f.v ELSE 0)

\* The order of str by code point, for the characters of the reports.
CodePoints ==
    " &,-.0123456789:ABCDEFGHIJKLMNOPQRSTUVWXYZabcdefghijklmnopqrstuvwxyz"

StrLess(a, b) ==
    LET n == Min(Len(a), Len(b))
        diff == {i \in 1..n : CharAt(a, i) # CharAt(b, i)}
    IN  IF diff = {} THEN Len(a) < Len(b)
        ELSE Bind(CHOOSE i \in diff : \A j \in diff : i <= j, LAMBDA i :
                IndexIn(CharAt(a, i), CodePoints)
                    < IndexIn(CharAt(b, i), CodePoints))

\* sorted(S) for a set of str.
RECURSIVE SortedStrings(_)
SortedStrings(S) ==
    IF S = {} THEN <<>>
    ELSE Bind(CHOOSE x \in S : \A y \in S : x = y \/ StrLess(x, y),
              LAMBDA m : <<m>> \o SortedStrings(S \ {m}))

(***************************************************************************)
(* extract_totals_from_json: the recursive walk of a report's rows into    *)
(* one TotalsMap (a function from key to cents).                           *)
(***************************************************************************)
NoiseLabels == {"Interest & Credit Card Fees", "SD - Excise Tax"}

\* part.get('ColData', []), col_data[0].get('value', default) and
\* col_data[-1].get('value', default).
ColDataOf(part) == Get(part, "ColData", <<>>)
FirstValue(col_data, default) == Get(col_data[1], "value", default)
LastValue(col_data, default) == Get(col_data[Len(col_data)], "value", default)

\* row['Rows']['Row'] when 'Rows' in row and 'Row' in row['Rows'].
NestedRows(row) ==
    IF Has(row, "Rows") /\ Has(row.Rows, "Row") THEN row.Rows.Row ELSE <<>>

\* f"{parent_path}::{name}" if parent_path else name
JoinPath(parent_path, name) ==
    IF parent_path # "" THEN parent_path \o "::" \o name ELSE name

\* row_type == 'Data' or ('ColData' in row and 'Summary' not in row and
\* 'Header' not in row)
IsDataRow(row) ==
    \/ Get(row, "type", "") = "Data"
    \/ Has(row, "ColData") /\ ~Has(row, "Summary") /\ ~Has(row, "Header")

\* The Summary block: totals[category] = value under the bare label.
PutSummary(row, acc) ==
    IF ~Has(row, "Summary") \/ ColDataOf(row.Summary) = <<>> THEN acc
    ELSE Bind(Strip(FirstValue(ColDataOf(row.Summary), "")), LAMBDA category :
            IF category # ""
            THEN Put(acc, category,
                     format_currency(LastValue(ColDataOf(row.Summary), "0.00")))
            ELSE acc)

\* The Header of a Section row: its name and its Header-level value.
SectionHeader(row) ==
    IF Has(row, "Header") /\ ColDataOf(row.Header) # <<>>
    THEN [name |-> Strip(FirstValue(ColDataOf(row.Header), "")),
          value |-> format_currency(LastValue(ColDataOf(row.Header), "0.00"))]
    ELSE [name |-> "", value |-> 0]

\* PutHeader without the test of parent_path.
PutHeaderAtRoot(acc, parent_path, current_path, header_value) ==
    IF header_value # 0
    THEN Put(acc, "HEADER::" \o current_path, header_value)
    ELSE acc

\* The HEADER:: entry of a Section below the top level.
PutHeader(acc, parent_path, current_path, header_value) ==
    IF header_value # 0 /\ parent_path # ""
    THEN Put(acc, "HEADER::" \o current_path, header_value)
    ELSE acc

\* PutData without the noise labels' test.
PutDataWithNoise(row, parent_path, acc) ==
    IF ColDataOf(row) = <<>> THEN acc
    ELSE Bind(Strip(FirstValue(ColDataOf(row), "")), LAMBDA item_name :
            IF item_name # ""
            THEN Put(acc, "DATA::" \o JoinPath(parent_path, item_name),
                     format_currency(LastValue(ColDataOf(row), "0.00")))
            ELSE acc)

\* The DATA:: entry of a Data row.
PutData(row, parent_path, acc) ==
    IF ColDataOf(row) = <<>> THEN acc
    ELSE Bind(Strip(FirstValue(ColDataOf(row), "")), LAMBDA item_name :
            IF item_name # "" /\ item_name \notin NoiseLabels
            THEN Put(acc, "DATA::" \o JoinPath(parent_path, item_name),
                     format_currency(LastValue(ColDataOf(row), "0.00")))
            ELSE acc)

RECURSIVE process_row(_, _, _)
RECURSIVE process_rows(_, _, _, _)
\* for nested_row in rows: process_row(nested_row, parent_path), from k on.
process_rows(rows, k, parent_path, acc) ==
    IF k > Len(rows) THEN acc
    ELSE Bind(process_row(rows[k], parent_path, acc), LAMBDA t :
            process_rows(rows, k + 1, parent_path, t))

process_row(row, parent_path, acc) ==
    IF Get(row, "type", "") = "Section"
    THEN Bind(SectionHeader(row), LAMBDA header :
         Bind(JoinPath(parent_path, header.name), LAMBDA current_path :
         Bind(process_rows(NestedRows(row), 1, current_path,
                  PutHeader(acc, parent_path, current_path, header.value)),
              LAMBDA t : PutSummary(row, t))))
    ELSE IF IsDataRow(row) THEN PutData(row, parent_path, acc)
    ELSE Bind(PutSummary(row, acc), LAMBDA t :
            process_rows(NestedRows(row), 1, parent_path, t))

\* totals = {} at the start of every call.
NewTotalsShared == totals
NewTotals == EmptyTotals

extract_totals_from_json(json_data) ==
    process_rows(NestedRows(json_data), 1, "", NewTotals)

(***************************************************************************)
(* extract_category_structure: categories, subcategories and items.        *)
(***************************************************************************)
get_section_name(row) ==
    IF Has(row, "Header") /\ ColDataOf(row.Header) # <<>>
    THEN Strip(FirstValue(ColDataOf(row.Header), ""))
    ELSE ""

\* get_data_items: the loop over rows_container['Row'], from k on.
RECURSIVE DataItemsFrom(_, _)
DataItemsFrom(rows, k) ==
    IF k > Len(rows) THEN <<>>
    ELSE (IF IsDataRow(rows[k]) /\ ColDataOf(rows[k]) # <<>>
          THEN Bind(Strip(FirstValue(ColDataOf(rows[k]), "")), LAMBDA item_name :
                  IF item_name # "" /\ item_name \notin NoiseLabels
                  THEN <<item_name>> ELSE <<>>)
          ELSE <<>>)
         \o DataItemsFrom(rows, k + 1)

get_data_items(rows_container) ==
    IF Has(rows_container, "Row") THEN DataItemsFrom(rows_container.Row, 1)
    ELSE <<>>

\* SubcategoryOf without the test "if subcategory['items']".
SubcategoryOfKeepEmpty(sub_row) ==
    IF Get(sub_row, "type", "") # "Section" THEN <<>>
    ELSE Bind(get_section_name(sub_row), LAMBDA sub_name :
            IF sub_name = "" \/ StartsWith(sub_name, "Total") THEN <<>>
            ELSE << [key |-> sub_name,
                     name |-> "   " \o sub_name,
                     items |-> IF Has(sub_row, "Rows")
                               THEN get_data_items(sub_row.Rows) ELSE <<>>] >>)

\* One subcategory of sub_row: <<subcategory>> when it is kept, else <<>>.
SubcategoryOf(sub_row) ==
    IF Get(sub_row, "type", "") # "Section" THEN <<>>
    ELSE Bind(get_section_name(sub_row), LAMBDA sub_name :
            IF sub_name = "" \/ StartsWith(sub_name, "Total") THEN <<>>
            ELSE Bind(IF Has(sub_row, "Rows") THEN get_data_items(sub_row.Rows)
                      ELSE <<>>,
                      LAMBDA items :
                        IF items # <<>>
                        THEN << [key |-> sub_name,
                                 name |-> "   " \o sub_name,
                                 items |-> items] >>
                        ELSE <<>>))

RECURSIVE SubcategoriesFrom(_, _)
SubcategoriesFrom(rows, k) ==
    IF k > Len(rows) THEN <<>>
    ELSE SubcategoryOf(rows[k]) \o SubcategoriesFrom(rows, k + 1)

\* One category of main_row: <<category>> when it is kept, else <<>>.
CategoryOf(main_row) ==
    IF Get(main_row, "type", "") # "Section" THEN <<>>
    ELSE Bind(get_section_name(main_row), LAMBDA main_name :
            IF \/ main_name = ""
               \/ main_name \in NoiseLabels
               \/ StartsWith(main_name, "Total")
            THEN <<>>
            ELSE Bind(SubcategoriesFrom(NestedRows(main_row), 1),
                      LAMBDA subcategories :
                        IF subcategories # <<>>
                        THEN << [key |-> main_name,
                                 name |-> main_name,
                                 subcategories |-> subcategories] >>
                        ELSE <<>>))

RECURSIVE CategoriesFrom(_, _)
CategoriesFrom(rows, k) ==
    IF k > Len(rows) THEN <<>>
    ELSE CategoryOf(rows[k]) \o CategoriesFrom(rows, k + 1)

extract_category_structure(json_data) ==
    CategoriesFrom(NestedRows(json_data), 1)

(***************************************************************************)
(* merge_category_structures: the dict merged keyed by category key, each  *)
(* entry with a dict of subcategories keyed by subcategory key, and the    *)
(* sorted lists made of it.                                                *)
(***************************************************************************)
\* set(items), and items.update(more) in three variants.
ItemSet(items) == {items[i] : i \in 1..Len(items)}
UpdateItemsKeepOld(old, more) == old
UpdateItemsSymmetric(old, more) ==
    (old \ ItemSet(more)) \cup (ItemSet(more) \ old)
UpdateItems(old, more) == old \cup ItemSet(more)

\* The body of "for subcat in cat.get('subcategories', [])".
MergeSubcategory(merged_subs, subcat) ==
    IF ~Has(merged_subs, subcat.key)
    THEN Put(merged_subs, subcat.key,
             [key |-> subcat.key, name |-> subcat.name,
              items |-> ItemSet(Get(subcat, "items", <<>>))])
    ELSE Put(merged_subs, subcat.key,
             [key |-> merged_subs[subcat.key].key,
              name |-> merged_subs[subcat.key].name,
              items |-> UpdateItems(merged_subs[subcat.key].items,
                                    Get(subcat, "items", <<>>))])

RECURSIVE MergeSubcategories(_, _, _)
MergeSubcategories(subcats, k, merged_subs) ==
    IF k > Len(subcats) THEN merged_subs
    ELSE Bind(MergeSubcategory(merged_subs, subcats[k]), LAMBDA m :
            MergeSubcategories(subcats, k + 1, m))

\* The body of "for cat in struct1 + struct2".
MergeCategory(merged, cat) ==
    Bind(IF ~Has(merged, cat.key)
         THEN [key |-> cat.key, name |-> cat.name, subcategories |-> <<>>]
         ELSE merged[cat.key],
         LAMBDA entry :
            Put(merged, cat.key,
                [key |-> entry.key, name |-> entry.name,
                 subcategories |->
                    MergeSubcategories(Get(cat, "subcategories", <<>>), 1,
                                       entry.subcategories)]))

RECURSIVE MergeCategories(_, _, _)
MergeCategories(cats, k, merged) ==
    IF k > Len(cats) THEN merged
    ELSE Bind(MergeCategory(merged, cats[k]), LAMBDA m :
            MergeCategories(cats, k + 1, m))

\* sorted(d.keys()) in descending and in ascending order.
RECURSIVE Reversed(_)
Reversed(seq) ==
    IF seq = <<>> THEN <<>> ELSE Reversed(Tail(seq)) \o <<Head(seq)>>

SortedDescending(S) == Reversed(SortedStrings(S))
Sorted(S) == SortedStrings(S)

\* "Convert back to list format".
SubcategoryList(subs) ==
    Bind(Sorted(DOMAIN subs), LAMBDA keys :
        [i \in 1..Len(keys) |->
            [key |-> subs[keys[i]].key,
             name |-> subs[keys[i]].name,
             items |-> Sorted(subs[keys[i]].items)]])

CategoryList(merged) ==
    Bind(Sorted(DOMAIN merged), LAMBDA keys :
        [i \in 1..Len(keys) |->
            [key |-> merged[keys[i]].key,
             name |-> merged[keys[i]].name,
             subcategories |-> SubcategoryList(merged[keys[i]].subcategories)]])

merge_category_structures(struct1, struct2) ==
    Bind(MergeCategories(struct1 \o struct2, 1, <<>>), LAMBDA merged :
        CategoryList(merged))

(***************************************************************************)
(* The documents of generate_report: ProfitAndLoss reports of Section and  *)
(* Data rows, of at most two main rows taken from MainRows.                *)
(***************************************************************************)
Cell(v) == [value |-> v]
DataRow(item, value) == [type |-> "Data", ColData |-> <<Cell(item), Cell(value)>>]
\* A row of the legacy format: column values and no type.
LegacyRow(item, value) == [ColData |-> <<Cell(item), Cell(value)>>]
SectionRow(name, header_value, rows, total) ==
    [type |-> "Section",
     Header |-> [ColData |-> <<Cell(name), Cell(header_value)>>],
     Rows |-> [Row |-> rows],
     Summary |-> [ColData |-> <<Cell("Total " \o name), Cell(total)>>]]
\* A row with nested rows and a Summary, and no type.
WrapperRow(rows, label, total) ==
    [Rows |-> [Row |-> rows],
     Summary |-> [ColData |-> <<Cell(label), Cell(total)>>]]
ProfitAndLoss(rows) ==
    [Header |-> [ReportName |-> "ProfitAndLoss"], Rows |-> [Row |-> rows]]

MainRows ==
    { SectionRow("B", "",
          << SectionRow("T", "", <<DataRow("x", "100.00")>>, "100.00") >>,
          "100.00"),
      SectionRow("B", "",
          << SectionRow("T", "12.00",
                 <<DataRow("y", "1,250.50"), DataRow("x", "40.00")>>,
                 "1,302.50"),
             SectionRow("S", "",
                 <<LegacyRow(" z ", "7.00"), DataRow("SD - Excise Tax", "9.00")>>,
                 "16.00") >>,
          "1,318.50"),
      SectionRow("A", "",
          << SectionRow("A::A", "", <<DataRow("x", "100.00")>>, "100.00") >>,
          "100.00"),
      SectionRow("A::A", "",
          << SectionRow("A", "", <<DataRow("x", "55.00")>>, "55.00") >>,
          "55.00"),
      SectionRow("A", "",
          << SectionRow("Total S", "", <<DataRow("x", "1.00")>>, "1.00"),
             SectionRow("S", "", <<>>, "0.00") >>,
          "1.00"),
      WrapperRow(
          << SectionRow("B", "",
                 << SectionRow("T", "", <<DataRow("w", "3.00")>>, "3.00") >>,
                 "3.00") >>,
          "TOTAL", "3.00"),
      SectionRow(" A ", "",
          << SectionRow("S", "5.00",
                 <<DataRow("y", "2.00"), DataRow("x", "n/a")>>, "2.00") >>,
          "2.00") }

SmallReports == {ProfitAndLoss(<<>>)} \cup {ProfitAndLoss(<<r>>) : r \in MainRows}
Reports ==
    SmallReports \cup {ProfitAndLoss(<<r1, r2>>) : r1, r2 \in MainRows}

\* The summary calculator is idle (its documents belong to the report).
SummaryNotCalled ==
    /\ period_arg = [month |-> None, year |-> None]
    /\ now = [month |-> 11, year |-> 2026]
    /\ summary = NoSummary
    /\ routes_summary = NoSummary
    /\ months = <<>>

(***************************************************************************)
(* The tree walker as a system: extract_totals_from_json is called on the  *)
(* two documents of a report, in any order, up to MaxCalls times.          *)
(***************************************************************************)
MaxCalls == 3

Document(which) == IF which = "last_month" THEN last_month_data ELSE ytd_data

InitWalker ==
    /\ RoyaltyIdle
    /\ SummaryNotCalled
    /\ StructureIdle
    /\ WalkerIdle
    /\ last_month_data \in Reports
    /\ ytd_data \in SmallReports

ExtractTotals ==
    /\ Len(calls) < MaxCalls
    /\ \E which \in {"last_month", "ytd"} :
          /\ totals' = extract_totals_from_json(Document(which))
          /\ calls' = Append(calls, [json_data |-> which,
                                     given |-> Document(which),
                                     result |-> totals'])
    /\ UNCHANGED <<royaltyVars, summaryVars, structureVars>>

NextWalker == ExtractTotals

SpecWalker == InitWalker /\ [][NextWalker]_vars

(***************************************************************************)
(* The structure of a report: generate_report extracts the structure of    *)
(* each document and merges the two.                                       *)
(***************************************************************************)
InitReport ==
    /\ RoyaltyIdle
    /\ SummaryNotCalled
    /\ StructureIdle
    /\ WalkerIdle
    /\ last_month_data \in Reports
    /\ ytd_data \in Reports

ExtractStructures ==
    /\ report_pc = "loaded"
    /\ report_lm_categories' = extract_category_structure(last_month_data)
    /\ report_ytd_categories' = extract_category_structure(ytd_data)
    /\ report_pc' = "extracted"
    /\ UNCHANGED <<report_categories, royaltyVars, summaryVars, walkerVars>>

MergeStructures ==
    /\ report_pc = "extracted"
    /\ report_categories' =
          merge_category_structures(report_lm_categories, report_ytd_categories)
    /\ report_pc' = "merged"
    /\ UNCHANGED <<report_lm_categories, report_ytd_categories, royaltyVars,
                   summaryVars, walkerVars>>

NextReport == ExtractStructures \/ MergeStructures

SpecReport == InitReport /\ [][NextReport]_vars

(***************************************************************************)
(* The payment summary on documents of both shapes: the column-oriented    *)
(* ClassSales report and the nested Section/Data report of the same        *)
(* revenue.                                                                *)
(***************************************************************************)
\* A nested report: one Section per category with revenue, a subsection
\* per customer type, and the jobs as Data rows.
NestedCategory(name, type_name, amount) ==
    SectionRow(name, "",
        << SectionRow(type_name, "", <<DataRow("Jobs", amount)>>, amount) >>,
        amount)

NestedDoc(water, subcontract) ==
    [Header |-> [EndPeriod |-> "2025-10-31"],
     Rows |-> [Row |->
        << NestedCategory("1 - WATER", "Commercial - Water", water),
           NestedCategory("5 - SUBCONTRACT", "Commercial - Subcontract",
                          subcontract) >>]]

NestedDocs ==
    {NestedDoc(w, s) : w \in {"12000.00", "1,250.50"}, s \in {"5000.00", "0.00"}}

ShapeDocs ==
    NestedDocs \cup
    {ClassSalesDoc(layout, m, "2025-10-31") :
        layout \in Layouts, m \in ScenarioAmounts}

InitShape ==
    /\ RoyaltyIdle
    /\ ReportIdle
    /\ last_month_data \in ShapeDocs
    /\ ytd_data \in ShapeDocs
    /\ period_arg \in PeriodArgs
    /\ now = [month |-> 11, year |-> 2026]
    /\ summary = NoSummary
    /\ routes_summary = NoSummary
    /\ months = <<>>

NextShape == CalculatePaymentSummary

SpecShape == InitShape /\ [][NextShape]_vars

\* The revenue a nested report holds: the sum of its Data rows' values, as
\* the tree walker reads them.
DataRevenue(json_data) ==
    LET t == extract_totals_from_json(json_data)
        keys == {k \in DOMAIN t : StartsWith(k, "DATA::")}
        S[K \in SUBSET keys] ==
            IF K = {} THEN 0
            ELSE LET k == CHOOSE x \in K : TRUE IN t[k] + S[K \ {k}]
    IN  S[keys]

\* C15: the revenue of a document reaches the category amounts and the
\* subtotals whatever its shape: a nested Section/Data document with
\* revenue gives a summary whose month (for the Last-Month document) and
\* YTD (for the YTD document) grand subtotal is that revenue, as a
\* ClassSales document of the same revenue does.
C15_ShapeDispatch ==
    summary # NoSummary =>
        /\ last_month_data \in NestedDocs =>
              summary.subtotals.total.this_month = DataRevenue(last_month_data)
        /\ ytd_data \in NestedDocs =>
              summary.subtotals.total.ytd = DataRevenue(ytd_data)
        /\ last_month_data \notin NestedDocs =>
              summary.subtotals.total.this_month = 1700000
        /\ ytd_data \notin NestedDocs =>
              summary.subtotals.total.ytd = 1700000

(***************************************************************************)
(* The extractors on a document with one cell under test: the Last-Month   *)
(* document holds the cell, the YTD document is the same document with     *)
(* "0" in its place.                                                       *)
(***************************************************************************)
\* Cells: amounts, an amount with a thousands separator, blank, no "value"
\* key, null, and text that is no amount.
ZeroCell == Cell("0")
MalformedCells ==
    {Cell(""), [id |-> "7"], Cell(Null), Cell("n/a"), Cell("12abc"), Cell("nan")}
CellValues ==
    {Cell("1250.50"), Cell("1,250.50"), Cell("-40.00"), ZeroCell}
        \cup MalformedCells

CellReport ==
    ProfitAndLoss(
        << SectionRow("B", "",
               << SectionRow("T", "5.00",
                      <<DataRow("x", "100.00"), DataRow("y", "1.00")>>,
                      "106.00") >>,
               "106.00") >>)

CellClassSales ==
    ClassSalesDoc("full",
        Amounts(Amt("10000.00", "2000.00", "12000.00"), Blank, Blank, Blank,
                Amt("5000.00", "", "5000.00"), Blank),
        "2025-10-31")

CellPositions ==
    {"data", "header", "summary", "commercial", "residential", "total"}

\* The document with cell c at the position: the value of a Data row, of a
\* Section's Header or Summary, or the water commercial, residential or
\* total cell of the GrandTotal row.
CellDoc(pos, c) ==
    CASE pos = "data" ->
            [CellReport EXCEPT !.Rows.Row[1].Rows.Row[1].Rows.Row[1].ColData[2] = c]
      [] pos = "header" ->
            [CellReport EXCEPT !.Rows.Row[1].Rows.Row[1].Header.ColData[2] = c]
      [] pos = "summary" ->
            [CellReport EXCEPT !.Rows.Row[1].Rows.Row[1].Summary.ColData[2] = c]
      [] pos = "commercial" ->
            [CellClassSales EXCEPT !.Rows.Row[2].Summary.ColData[2] = c]
      [] pos = "residential" ->
            [CellClassSales EXCEPT !.Rows.Row[2].Summary.ColData[3] = c]
      [] pos = "total" ->
            [CellClassSales EXCEPT !.Rows.Row[2].Summary.ColData[4] = c]

InitCells ==
    /\ RoyaltyIdle
    /\ SummaryNotCalled
    /\ StructureIdle
    /\ WalkerIdle
    /\ \E pos \in CellPositions, c \in CellValues :
          /\ last_month_data = CellDoc(pos, c)
          /\ ytd_data = CellDoc(pos, ZeroCell)

\* format_currency on the text of the cell under test (the walker's
\* default for a cell without "value" is "0.00").
CallFormatCurrency ==
    \E pos \in CellPositions, c \in CellValues :
        /\ last_month_data = CellDoc(pos, c)
        /\ fn' = "format_currency"
        /\ args' = [value |-> Get(c, "value", "0.00")]
        /\ ret' = [result |-> format_currency(args'.value)]
        /\ UNCHANGED notRoyaltyVars

CallExtractCategoryTotals ==
    \E which \in {"last_month", "ytd"} :
        /\ fn' = "extract_category_totals"
        /\ args' = [rvcr_data |-> which]
        /\ ret' = [result |-> extract_category_totals(Document(which))]
        /\ UNCHANGED notRoyaltyVars

NextCells == CallFormatCurrency \/ CallExtractCategoryTotals \/ ExtractTotals

SpecCells == InitCells /\ [][NextCells]_vars

\* The Last-Month document holds a blank, missing, null or malformed cell.
MalformedCellUnderTest ==
    \E pos \in CellPositions, c \in MalformedCells :
        last_month_data = CellDoc(pos, c)

\* Every amount of a result of extract_category_totals is a number.
AllNumbers(category_totals) ==
    \A c \in DOMAIN category_totals :
        /\ category_totals[c].commercial # NaN
        /\ category_totals[c].residential # NaN
        /\ category_totals[c].total # NaN

\* C17: cell coercion never fails and never poisons a result: every cell
\* gives a number; a blank, missing, null or malformed cell gives 0, and
\* the totals extracted from a document with such a cell are the totals of
\* the same document with "0" in the cell's place.
C17_CellCoercion ==
    /\ fn = "format_currency" =>
          /\ ret.result # NaN
          /\ Cell(args.value) \in MalformedCells => ret.result = 0
          /\ args.value = "1,250.50" => ret.result = 125050
    /\ fn = "extract_category_totals" =>
          /\ AllNumbers(ret.result)
          /\ (args.rvcr_data = "last_month" /\ MalformedCellUnderTest) =>
                ret.result = extract_category_totals(ytd_data)
    /\ \A i \in 1..Len(calls) :
          /\ \A k \in DOMAIN calls[i].result : calls[i].result[k] # NaN
          /\ (calls[i].json_data = "last_month" /\ MalformedCellUnderTest) =>
                calls[i].result = extract_totals_from_json(ytd_data)

(***************************************************************************)
(* The extractors on documents that lack a part: the Last-Month document   *)
(* is a report without one of its parts, the YTD document the whole        *)
(* report.                                                                 *)
(***************************************************************************)
\* The dict d without its key k.
Without(d, k) == [x \in DOMAIN d \ {k} |-> d[x]]

\* The inner Section T of CellReport, and CellReport with T replaced.
SectionT == CellReport.Rows.Row[1].Rows.Row[1]
ReportWithT(section) == [CellReport EXCEPT !.Rows.Row[1].Rows.Row[1] = section]

\* The GrandTotal row of CellClassSales, and CellClassSales with it replaced.
GrandTotalRow == CellClassSales.Rows.Row[2]
ClassSalesWithTotal(row) == [CellClassSales EXCEPT !.Rows.Row[2] = row]

ReportParts ==
    {"report", "Rows", "Row", "Header", "Header.ColData", "Summary",
     "Summary.ColData", "nested Rows", "nested Row", "Data.ColData"}
ClassSalesParts ==
    {"class_sales", "cs Rows", "cs Columns", "cs Column", "cs Header",
     "cs Summary", "cs Summary.ColData", "GrandTotal", "short row", "value"}

\* The report without the part ("report" and "class_sales": nothing is
\* missing).
PartDoc(part) ==
    CASE part = "report" -> CellReport
      [] part = "Rows" -> Without(CellReport, "Rows")
      [] part = "Row" -> [CellReport EXCEPT !.Rows = <<>>]
      [] part = "Header" -> ReportWithT(Without(SectionT, "Header"))
      [] part = "Header.ColData" -> ReportWithT([SectionT EXCEPT !.Header = <<>>])
      [] part = "Summary" -> ReportWithT(Without(SectionT, "Summary"))
      [] part = "Summary.ColData" -> ReportWithT([SectionT EXCEPT !.Summary = <<>>])
      [] part = "nested Rows" -> ReportWithT(Without(SectionT, "Rows"))
      [] part = "nested Row" -> ReportWithT([SectionT EXCEPT !.Rows = <<>>])
      [] part = "Data.ColData" ->
            ReportWithT([SectionT EXCEPT !.Rows.Row[1] = [type |-> "Data"]])
      [] part = "class_sales" -> CellClassSales
      [] part = "cs Rows" -> Without(CellClassSales, "Rows")
      [] part = "cs Columns" -> Without(CellClassSales, "Columns")
      [] part = "cs Column" -> [CellClassSales EXCEPT !.Columns = <<>>]
      [] part = "cs Header" -> Without(CellClassSales, "Header")
      [] part = "cs Summary" ->
            ClassSalesWithTotal(Without(GrandTotalRow, "Summary"))
      [] part = "cs Summary.ColData" ->
            ClassSalesWithTotal([GrandTotalRow EXCEPT !.Summary = <<>>])
      [] part = "GrandTotal" ->
            [CellClassSales EXCEPT !.Rows.Row = <<CellClassSales.Rows.Row[1]>>]
      [] part = "short row" ->
            ClassSalesWithTotal([GrandTotalRow EXCEPT !.Summary.ColData =
                SubSeq(GrandTotalRow.Summary.ColData, 1, 2)])
      [] part = "value" ->
            ClassSalesWithTotal([GrandTotalRow EXCEPT !.Summary.ColData[2] =
                [id |-> "7"]])

InitParts ==
    /\ RoyaltyIdle
    /\ SummaryNotCalled
    /\ StructureIdle
    /\ WalkerIdle
    /\ \/ \E part \in ReportParts :
             last_month_data = PartDoc(part) /\ ytd_data = CellReport
       \/ \E part \in ClassSalesParts :
             last_month_data = PartDoc(part) /\ ytd_data = CellClassSales

NextParts == ExtractTotals \/ ExtractStructures \/ CallExtractCategoryTotals

SpecParts == InitParts /\ [][NextParts]_vars

\* What the whole reports give.
WholeTotals == extract_totals_from_json(CellReport)
WholeStructure == extract_category_structure(CellReport)
WholeCategoryTotals == extract_category_totals(CellClassSales)

\* The map without its DATA:: entries.
WithoutData(t) == [k \in {x \in DOMAIN t : ~StartsWith(x, "DATA::")} |-> t[k]]

\* The TotalsMap expected of the report without the part.
ExpectedTotals(part) ==
    CASE part = "report" -> WholeTotals
      [] part \in {"Rows", "Row", "cs Rows"} -> EmptyTotals
      [] part \in {"Header", "Header.ColData"} ->
            ("Total T" :> 10600) @@ ("Total B" :> 10600)
                @@ ("DATA::B::::x" :> 10000) @@ ("DATA::B::::y" :> 100)
      [] part \in {"Summary", "Summary.ColData"} -> Without(WholeTotals, "Total T")
      [] part \in {"nested Rows", "nested Row"} -> WithoutData(WholeTotals)
      [] part = "Data.ColData" -> Without(WholeTotals, "DATA::B::T::x")
      [] part \in {"class_sales", "cs Columns", "cs Column", "cs Header", "value"} ->
            ("TOTAL" :> 0) @@ ("Total Customer" :> 99900)
      [] part \in {"cs Summary", "cs Summary.ColData", "GrandTotal"} ->
            ("Total Customer" :> 99900)
      [] part = "short row" ->
            ("TOTAL" :> 1000000) @@ ("Total Customer" :> 99900)

\* The structure expected of the report without the part.
ExpectedStructure(part) ==
    CASE part \in {"report", "Summary", "Summary.ColData"} -> WholeStructure
      [] part = "Data.ColData" ->
            << [key |-> "B", name |-> "B",
                subcategories |->
                    << [key |-> "T", name |-> "   T", items |-> <<"y">>] >>] >>
      [] OTHER -> <<>>

\* The category totals expected of the report without the part.
ExpectedCategoryTotals(part) ==
    CASE part \in {"class_sales", "cs Header"} -> WholeCategoryTotals
      [] part = "short row" ->
            [ZeroTotals EXCEPT !.water = [commercial |-> 1000000,
                                          residential |-> 0,
                                          total |-> 1000000]]
      [] part = "value" ->
            [WholeCategoryTotals EXCEPT !.water = [commercial |-> 0,
                                                   residential |-> 200000,
                                                   total |-> 200000]]
      [] OTHER -> ZeroTotals

\* C18: a missing part never makes an extractor fail: on a report without
\* Rows, Columns, Header, Summary, nested Rows or the GrandTotal section,
\* or with a GrandTotal row shorter than a matched column, the tree walker
\* returns the map without the entries of the part (empty without Rows),
\* the structure builder the list without the nodes of the part, and the
\* column extractor zero for every category it cannot read.
C18_MissingParts ==
    \A part \in ReportParts \cup ClassSalesParts :
        last_month_data = PartDoc(part) =>
            /\ \A i \in 1..Len(calls) :
                  calls[i].json_data = "last_month" =>
                      calls[i].result = ExpectedTotals(part)
            /\ report_pc = "extracted" =>
                  report_lm_categories = ExpectedStructure(part)
            /\ (fn = "extract_category_totals" /\ args.rvcr_data = "last_month") =>
                  ret.result = ExpectedCategoryTotals(part)

\* C18 witness: the three extractors have run on the ClassSales report
\* whose GrandTotal row ends after the first category column.
C18_Witness ==
    /\ last_month_data = PartDoc("short row")
    /\ fn = "extract_category_totals"
    /\ args.rvcr_data = "last_month"
    /\ ret.result.water.total = 1000000
    /\ ret.result.subcontract.total = 0
    /\ report_pc = "extracted"
    /\ \E i \in 1..Len(calls) : calls[i].json_data = "last_month"

(***************************************************************************)
(* Claims about the tree walker (checked under SpecWalker).                *)
(***************************************************************************)
\* The Data rows the walker stores, each with the names of the Sections it
\* sits under, its item name, its value and the key it is stored under.
RECURSIVE DataRowsOf(_, _, _)
DataRowsOf(row, parent_path, path) ==
    IF Get(row, "type", "") = "Section"
    THEN UNION {DataRowsOf(NestedRows(row)[k],
                           JoinPath(parent_path, SectionHeader(row).name),
                           Append(path, SectionHeader(row).name)) :
                   k \in 1..Len(NestedRows(row))}
    ELSE IF IsDataRow(row)
    THEN IF ColDataOf(row) = <<>> THEN {}
         ELSE LET item_name == Strip(FirstValue(ColDataOf(row), ""))
              IN  IF item_name # "" /\ item_name \notin NoiseLabels
                  THEN {[path |-> path, item |-> item_name,
                         value |-> LastValue(ColDataOf(row), "0.00"),
                         key |-> "DATA::" \o JoinPath(parent_path, item_name)]}
                  ELSE {}
    ELSE UNION {DataRowsOf(NestedRows(row)[k], parent_path, path) :
                   k \in 1..Len(NestedRows(row))}

DataRows(json_data) ==
    UNION {DataRowsOf(NestedRows(json_data)[k], "", <<>>) :
              k \in 1..Len(NestedRows(json_data))}

\* The Data rows under a category and a subcategory.
TripleRows(json_data) == {r \in DataRows(json_data) : Len(r.path) = 2}

SameTriple(r1, r2) == r1.path = r2.path /\ r1.item = r2.item

\* C6: in one document, two Data rows with different (category,
\* subcategory, item) triples never share a DATA:: key, and each key holds
\* its own row's value, whatever the section and item names are.
C6_DistinctKeys ==
    \A c \in 1..Len(calls) :
        \A r1, r2 \in TripleRows(calls[c].given) :
            ~SameTriple(r1, r2) =>
                /\ r1.key # r2.key
                /\ (\A r \in TripleRows(calls[c].given) : SameTriple(r, r1) => r = r1)
                    => calls[c].result[r1.key] = format_currency(r1.value)

SubcategoryEntries(struct) ==
    UNION {{[category |-> struct[i].key, sub |-> struct[i].subcategories[j]] :
               j \in 1..Len(struct[i].subcategories)} : i \in 1..Len(struct)}

Pairs(struct) == {<<e.category, e.sub.key>> : e \in SubcategoryEntries(struct)}

ItemsAt(struct, pair) ==
    UNION {ItemSet(e.sub.items) :
              e \in {d \in SubcategoryEntries(struct) :
                        <<d.category, d.sub.key>> = pair}}

Triples(struct) ==
    UNION {{<<e.category, e.sub.key, x>> : x \in ItemSet(e.sub.items)} :
              e \in SubcategoryEntries(struct)}

CategoryKeys(struct) == {struct[i].key : i \in 1..Len(struct)}

\* C7: the merge is idempotent: Merge(A, Merge(A, B)) = Merge(A, B), and
\* Merge(M, M) = M for the merge result M.
C7_MergeIdempotent ==
    report_pc = "merged" =>
        /\ merge_category_structures(report_lm_categories, report_categories)
              = report_categories
        /\ merge_category_structures(report_categories, report_categories)
              = report_categories

\* C7 witness: a merge of two structures that list different, overlapping
\* items under one subcategory, its result differing from both.
C7_Witness ==
    /\ report_pc = "merged"
    /\ report_categories # report_lm_categories
    /\ report_categories # report_ytd_categories
    /\ \E pair \in Pairs(report_lm_categories) \cap Pairs(report_ytd_categories) :
          /\ ItemsAt(report_lm_categories, pair)
                # ItemsAt(report_ytd_categories, pair)
          /\ ItemsAt(report_lm_categories, pair)
                \cap ItemsAt(report_ytd_categories, pair) # {}

StrictlyAscending(seq) ==
    \A i \in 1..(Len(seq) - 1) : StrLess(seq[i], seq[i + 1])

KeysOf(seq) == [i \in 1..Len(seq) |-> seq[i].key]

\* C9: the merged structure that generate_report formats is the key-wise
\* union of the structures of its two documents in canonical form: an item
\* is listed under a (category key, subcategory key) of the result exactly
\* when it is listed under that pair in one of the two, every key and item
\* appears once, and category keys, subcategory keys and items are each in
\* ascending order.
C9_MergeIsUnion ==
    report_pc = "merged" =>
        /\ report_lm_categories = extract_category_structure(last_month_data)
        /\ report_ytd_categories = extract_category_structure(ytd_data)
        /\ Triples(report_categories) =
              Triples(report_lm_categories) \cup Triples(report_ytd_categories)
        /\ Pairs(report_categories) =
              Pairs(report_lm_categories) \cup Pairs(report_ytd_categories)
        /\ CategoryKeys(report_categories) =
              CategoryKeys(report_lm_categories)
                  \cup CategoryKeys(report_ytd_categories)
        /\ StrictlyAscending(KeysOf(report_categories))
        /\ \A i \in 1..Len(report_categories) :
              /\ StrictlyAscending(KeysOf(report_categories[i].subcategories))
              /\ \A j \in 1..Len(report_categories[i].subcategories) :
                    StrictlyAscending(report_categories[i].subcategories[j].items)

\* C9 witness: the two documents each hold an item the other lacks, the
\* Last-Month structure lists its categories out of order, and the merged
\* structure holds several categories.
C9_Witness ==
    /\ report_pc = "merged"
    /\ Triples(report_lm_categories) \ Triples(report_ytd_categories) # {}
    /\ Triples(report_ytd_categories) \ Triples(report_lm_categories) # {}
    /\ Len(report_lm_categories) = 2
    /\ StrLess(report_lm_categories[2].key, report_lm_categories[1].key)
    /\ Len(report_categories) >= 2

(***************************************************************************)
(* The structure builder on reports whose category, subcategory and item   *)
(* rows carry every kind of name: blank, padded, a noise label, a name     *)
(* beginning with "Total".                                                 *)
(***************************************************************************)
RowNames ==
    {"", "  ", "A", " B ", "Total", "Total A", "total",
     "SD - Excise Tax", " Interest & Credit Card Fees "}

NamedReport(main_name, sub_name, item_name) ==
    ProfitAndLoss(
        << SectionRow(main_name, "",
               << SectionRow(sub_name, "",
                      <<DataRow(item_name, "1.00"), DataRow("x", "2.00")>>,
                      "3.00") >>,
               "3.00") >>)

NamedReports ==
    {NamedReport(m, s, i) : m \in RowNames, s \in RowNames, i \in RowNames}

\* Reports with sections that hold no item or no subcategory.
SparseReports ==
    { ProfitAndLoss(<<>>),
      NamedReport("A", "Total A", "x"),
      ProfitAndLoss(<< SectionRow("A", "", << SectionRow("S", "", <<>>, "0.00") >>, "0.00") >>),
      ProfitAndLoss(<< SectionRow("A", "",
                          << SectionRow("S", "",
                                 <<DataRow("SD - Excise Tax", "9.00"), DataRow(" ", "1.00")>>,
                                 "10.00") >>,
                          "10.00") >>),
      ProfitAndLoss(<< SectionRow("A", "",
                          << SectionRow("S", "", <<DataRow("x", "1.00")>>, "1.00"),
                             SectionRow("T", "", <<>>, "0.00") >>,
                          "1.00") >>),
      ProfitAndLoss(<< SectionRow("A", "", <<>>, "0.00"),
                       SectionRow("B", "",
                          << SectionRow("S", "", <<LegacyRow("y", "1.00")>>, "1.00") >>,
                          "1.00") >>),
      ProfitAndLoss(<< SectionRow("A", "", <<DataRow("x", "1.00")>>, "1.00") >>),
      ProfitAndLoss(<< SectionRow("A", "",
                          << [type |-> "Section",
                              Header |-> [ColData |-> <<Cell("S"), Cell("")>>]] >>,
                          "0.00") >>) }

InitNames ==
    /\ RoyaltyIdle
    /\ SummaryNotCalled
    /\ StructureIdle
    /\ WalkerIdle
    /\ last_month_data \in NamedReports
    /\ ytd_data \in SparseReports

NextNames == ExtractStructures

SpecNames == InitNames /\ [][NextNames]_vars

\* A name no node of a structure may carry: blank, a noise label, or one
\* beginning with "Total" (the indentation of a subcategory's name aside).
ExcludedName(name) ==
    Bind(Strip(name), LAMBDA n :
        n = "" \/ n \in NoiseLabels \/ StartsWith(n, "Total"))

CategoryNamesClean(categories) ==
    \A c \in 1..Len(categories) :
        /\ ~ExcludedName(categories[c].name)
        /\ ~ExcludedName(categories[c].key)

SubcategoryNamesClean(categories) ==
    \A c \in 1..Len(categories) :
        \A k \in 1..Len(categories[c].subcategories) :
            /\ ~ExcludedName(categories[c].subcategories[k].name)
            /\ ~ExcludedName(categories[c].subcategories[k].key)

ItemNamesClean(categories) ==
    \A c \in 1..Len(categories) :
        \A k \in 1..Len(categories[c].subcategories) :
            \A i \in 1..Len(categories[c].subcategories[k].items) :
                ~ExcludedName(categories[c].subcategories[k].items[i])

\* C20: in every structure extract_category_structure returns, no category
\* name and no subcategory name is blank, a noise label or begins with
\* "Total", and no item name is blank, a noise label or a "Total ..." row.
C20_StructureNames ==
    (report_pc = "extracted") =>
        /\ CategoryNamesClean(report_lm_categories)
        /\ SubcategoryNamesClean(report_lm_categories)
        /\ ItemNamesClean(report_lm_categories)
        /\ CategoryNamesClean(report_ytd_categories)
        /\ SubcategoryNamesClean(report_ytd_categories)
        /\ ItemNamesClean(report_ytd_categories)

\* The rows of a subcategory Section that give an item: Data rows with a
\* name that is not blank and no noise label.
SurvivingItems(sub_row) ==
    {k \in 1..Len(NestedRows(sub_row)) :
        LET row == NestedRows(sub_row)[k]
        IN  /\ IsDataRow(row)
            /\ ColDataOf(row) # <<>>
            /\ Strip(FirstValue(ColDataOf(row), "")) \notin ({""} \cup NoiseLabels)}

\* The subcategory Sections of a top-level row that survive.
SurvivingSubcategories(main_row) ==
    {k \in 1..Len(NestedRows(main_row)) :
        LET sub_row == NestedRows(main_row)[k]
        IN  /\ Get(sub_row, "type", "") = "Section"
            /\ get_section_name(sub_row) # ""
            /\ ~StartsWith(get_section_name(sub_row), "Total")
            /\ SurvivingItems(sub_row) # {}}

\* The top-level Sections of a document that survive.
SurvivingCategories(json_data) ==
    {k \in 1..Len(NestedRows(json_data)) :
        LET main_row == NestedRows(json_data)[k]
        IN  /\ Get(main_row, "type", "") = "Section"
            /\ ~ExcludedName(get_section_name(main_row))
            /\ SurvivingSubcategories(main_row) # {}}

RECURSIVE SubcategoryCount(_, _)
SubcategoryCount(categories, k) ==
    IF k = 0 THEN 0
    ELSE Len(categories[k].subcategories) + SubcategoryCount(categories, k - 1)

RECURSIVE SurvivingCount(_, _)
SurvivingCount(json_data, ks) ==
    IF ks = {} THEN 0
    ELSE LET k == CHOOSE x \in ks : TRUE
         IN  Cardinality(SurvivingSubcategories(NestedRows(json_data)[k]))
               + SurvivingCount(json_data, ks \ {k})

\* The structure of json_data has no empty node and one node for each
\* surviving Section, none for another.
NoEmptyNode(categories, json_data) ==
    /\ \A c \in 1..Len(categories) :
          /\ Len(categories[c].subcategories) >= 1
          /\ \A k \in 1..Len(categories[c].subcategories) :
                Len(categories[c].subcategories[k].items) >= 1
    /\ Len(categories) = Cardinality(SurvivingCategories(json_data))
    /\ SubcategoryCount(categories, Len(categories))
          = SurvivingCount(json_data, SurvivingCategories(json_data))

\* C21: in every structure extract_category_structure returns, each
\* subcategory has at least one item and each category at least one
\* subcategory; a Section with no surviving Data item and a top-level
\* Section with no surviving subcategory are absent from it.
C21_NoEmptyNode ==
    (report_pc = "extracted") =>
        /\ NoEmptyNode(report_lm_categories, last_month_data)
        /\ NoEmptyNode(report_ytd_categories, ytd_data)

\* C21 witness: a category with two subcategory Sections, one with an item
\* and one with none, is listed with the first only; and a document whose
\* only subcategory holds nothing but a noise row and a blank row gives the
\* empty structure.
C21_Witness ==
    /\ report_pc = "extracted"
    /\ \/ /\ Len(NestedRows(ytd_data)) = 1
          /\ Len(NestedRows(NestedRows(ytd_data)[1])) = 2
          /\ Len(report_ytd_categories) = 1
          /\ Len(report_ytd_categories[1].subcategories) = 1
       \/ /\ Len(NestedRows(ytd_data)) = 1
          /\ Len(NestedRows(NestedRows(ytd_data)[1])) = 1
          /\ Len(NestedRows(NestedRows(NestedRows(ytd_data)[1])[1])) = 2
          /\ get_section_name(NestedRows(NestedRows(ytd_data)[1])[1]) = "S"
          /\ report_ytd_categories = <<>>

(***************************************************************************)
(* The tree walker on reports whose Sections carry Header-level values at  *)
(* the top level and below it.                                             *)
(***************************************************************************)
HeaderValues == {"", "0.00", "0", "12.00", "-3.50", "1,250.50", "n/a"}

\* A top-level Section holding a Section that holds a Data row and a third
\* level Section U with a Header-level value of its own.
HeaderReport(main_name, main_value, sub_name, sub_value) ==
    ProfitAndLoss(
        << SectionRow(main_name, main_value,
               << SectionRow(sub_name, sub_value,
                      << DataRow("x", "1.00"),
                         SectionRow("U", "4.00", <<DataRow("y", "2.00")>>, "2.00") >>,
                      "3.00") >>,
               "3.00") >>)

HeaderReports ==
    {HeaderReport(m, mv, n, nv) :
        m \in {"B", ""}, mv \in HeaderValues, n \in {"T", " B ", ""}, nv \in HeaderValues}

\* Reports with a Section under an untyped wrapper row, a Section whose
\* Header has one column only, and two Sections of one path.
OddHeaderReports ==
    { ProfitAndLoss(<<>>),
      ProfitAndLoss(<< WrapperRow(<< SectionRow("B", "8.00",
                                        << SectionRow("T", "6.00", <<>>, "0.00") >>,
                                        "0.00") >>, "TOTAL", "0.00") >>),
      ProfitAndLoss(<< SectionRow("B", "",
                          << [type |-> "Section",
                              Header |-> [ColData |-> <<Cell("7")>>],
                              Rows |-> [Row |-> <<DataRow("x", "1.00")>>]] >>,
                          "1.00") >>),
      ProfitAndLoss(<< SectionRow("B", "",
                          << SectionRow("T", "6.00", <<>>, "0.00"),
                             SectionRow("T", "9.00", <<>>, "0.00") >>,
                          "0.00") >>) }

InitHeaders ==
    /\ RoyaltyIdle
    /\ SummaryNotCalled
    /\ StructureIdle
    /\ WalkerIdle
    /\ last_month_data \in HeaderReports
    /\ ytd_data \in OddHeaderReports

NextHeaders == ExtractTotals

SpecHeaders == InitHeaders /\ [][NextHeaders]_vars

\* The Section rows of a document at any depth, each with the path of its
\* parent, its own path and its Header-level value.
RECURSIVE SectionsOf(_, _)
SectionsOf(row, parent_path) ==
    IF Get(row, "type", "") = "Section"
    THEN LET current_path == JoinPath(parent_path, SectionHeader(row).name)
         IN  {[parent_path |-> parent_path, path |-> current_path,
               value |-> SectionHeader(row).value]}
             \cup UNION {SectionsOf(NestedRows(row)[k], current_path) :
                            k \in 1..Len(NestedRows(row))}
    ELSE IF IsDataRow(row) THEN {}
    ELSE UNION {SectionsOf(NestedRows(row)[k], parent_path) :
                   k \in 1..Len(NestedRows(row))}

Sections(json_data) ==
    UNION {SectionsOf(NestedRows(json_data)[k], "") :
              k \in 1..Len(NestedRows(json_data))}

HeaderKeys(result) == {key \in DOMAIN result : StartsWith(key, "HEADER::")}

\* C22: the walker's map holds HEADER::<path> = v exactly for the Sections
\* with a non-zero Header-level value v and a non-empty parent path, <path>
\* the parent path joined with the section name by "::"; there is no
\* HEADER:: entry for a top-level Section and none with value 0.
C22_HeaderEntries ==
    \A c \in 1..Len(calls) :
        LET secs == Sections(calls[c].given)
            result == calls[c].result
        IN  /\ HeaderKeys(result) =
                  {"HEADER::" \o sec.path :
                      sec \in {x \in secs : x.value # 0 /\ x.parent_path # ""}}
            /\ \A key \in HeaderKeys(result) :
                  /\ result[key] # 0
                  /\ \E sec \in secs :
                        /\ "HEADER::" \o sec.path = key
                        /\ sec.parent_path # ""
                        /\ sec.value = result[key]
            /\ \A sec \in secs :
                  (/\ sec.value # 0
                   /\ sec.parent_path # ""
                   /\ \A other \in secs : other.path = sec.path => other = sec)
                      => result["HEADER::" \o sec.path] = sec.value

\* C22 witness: the top-level Section B has the Header-level value 12.00
\* and no entry, its subsection T has 1,250.50 and the entry
\* HEADER::B::T, and the third-level Section U has HEADER::B::T::U.
C22_Witness ==
    \E c \in 1..Len(calls) :
        /\ calls[c].given = HeaderReport("B", "12.00", "T", "1,250.50")
        /\ HeaderKeys(calls[c].result) = {"HEADER::B::T", "HEADER::B::T::U"}
        /\ calls[c].result["HEADER::B::T"] = 125050
        /\ calls[c].result["HEADER::B::T::U"] = 400

(***************************************************************************)
(* The tree walker on reports with Data rows of every kind: typed, untyped *)
(* with flat column values, under untyped rows with nested Rows, and with  *)
(* nested Rows of their own.                                               *)
(***************************************************************************)
ItemNames ==
    {"x", " x ", "", "SD - Excise Tax", " Interest & Credit Card Fees ", "Total x"}
ItemValues == {"5.00", "n/a"}

\* The rows holding an item: a typed Data row, an untyped row with flat
\* column values, each of the two under an untyped row with nested Rows
\* (with and without a Summary), and each of the two carrying nested Rows
\* with a Data row w.
ItemRows(item, value) ==
    { DataRow(item, value),
      LegacyRow(item, value),
      WrapperRow(<<DataRow(item, value)>>, "TOTAL", value),
      [Rows |-> [Row |-> <<LegacyRow(item, value)>>]],
      [type |-> "Data", ColData |-> <<Cell(item), Cell(value)>>,
       Rows |-> [Row |-> <<DataRow("w", "7.00")>>]],
      [ColData |-> <<Cell(item), Cell(value)>>,
       Rows |-> [Row |-> <<DataRow("w", "7.00")>>]] }

DataReport(main_name, sub_name, row) ==
    ProfitAndLoss(
        << SectionRow(main_name, "",
               << SectionRow(sub_name, "", <<row, DataRow("z", "1.00")>>, "0.00") >>,
               "0.00") >>)

DataReports ==
    {DataReport(m, n, row) :
        m \in {"B", ""}, n \in {"T", ""},
        row \in UNION {ItemRows(i, v) : i \in ItemNames, v \in ItemValues}}

\* Reports with Data rows at the top level and at the third level.
FlatReports ==
    { ProfitAndLoss(<<>>),
      ProfitAndLoss(<<DataRow("x", "5.00"), LegacyRow("SD - Excise Tax", "9.00")>>),
      ProfitAndLoss(<< SectionRow("B", "",
                          << SectionRow("T", "",
                                 << SectionRow("U", "",
                                        <<DataRow("x", "5.00"),
                                          DataRow("SD - Excise Tax", "9.00")>>,
                                        "5.00") >>,
                                 "5.00") >>,
                          "5.00") >>) }

InitData ==
    /\ RoyaltyIdle
    /\ SummaryNotCalled
    /\ StructureIdle
    /\ WalkerIdle
    /\ last_month_data \in DataReports
    /\ ytd_data \in FlatReports

NextData == ExtractTotals

SpecData == InitData /\ [][NextData]_vars

\* Every Data row of a document at any depth, each with the names of the
\* Sections that enclose it; the nested Rows of every row are searched.
RECURSIVE AllDataRowsOf(_, _)
AllDataRowsOf(row, names) ==
    IF Get(row, "type", "") = "Section"
    THEN UNION {AllDataRowsOf(NestedRows(row)[k],
                              Append(names, SectionHeader(row).name)) :
                   k \in 1..Len(NestedRows(row))}
    ELSE (IF IsDataRow(row) /\ ColDataOf(row) # <<>>
          THEN {[names |-> names,
                 item |-> Strip(FirstValue(ColDataOf(row), "")),
                 value |-> LastValue(ColDataOf(row), "0.00")]}
          ELSE {})
         \cup UNION {AllDataRowsOf(NestedRows(row)[k], names) :
                        k \in 1..Len(NestedRows(row))}

AllDataRows(json_data) ==
    UNION {AllDataRowsOf(NestedRows(json_data)[k], <<>>) :
              k \in 1..Len(NestedRows(json_data))}

\* The same, the nested Rows of a Data row left out.
RECURSIVE OuterDataRowsOf(_, _)
OuterDataRowsOf(row, names) ==
    IF Get(row, "type", "") = "Section"
    THEN UNION {OuterDataRowsOf(NestedRows(row)[k],
                                Append(names, SectionHeader(row).name)) :
                   k \in 1..Len(NestedRows(row))}
    ELSE IF IsDataRow(row)
    THEN (IF ColDataOf(row) # <<>>
          THEN {[names |-> names,
                 item |-> Strip(FirstValue(ColDataOf(row), "")),
                 value |-> LastValue(ColDataOf(row), "0.00")]}
          ELSE {})
    ELSE UNION {OuterDataRowsOf(NestedRows(row)[k], names) :
                   k \in 1..Len(NestedRows(row))}

OuterDataRows(json_data) ==
    UNION {OuterDataRowsOf(NestedRows(json_data)[k], <<>>) :
              k \in 1..Len(NestedRows(json_data))}

RECURSIVE JoinNames(_)
\* '::'.join(names)
JoinNames(names) ==
    IF names = <<>> THEN ""
    ELSE IF Len(names) = 1 THEN names[1]
    ELSE names[1] \o "::" \o JoinNames(Tail(names))

RECURSIVE DropBlank(_)
\* names without the blank names at its start.
DropBlank(names) ==
    IF names # <<>> /\ names[1] = "" THEN DropBlank(Tail(names)) ELSE names

\* DATA::<path>::<item>, DATA::<item> for a row no Section encloses.
DataKey(names, item) == "DATA::" \o JoinNames(Append(names, item))

NamedItem(r) == r.item # "" /\ r.item \notin NoiseLabels

DataKeys(result) == {key \in DOMAIN result : StartsWith(key, "DATA::")}

\* The DATA:: entries of result are those of the named rows of rows, each
\* under the key of its names as path(names) gives them and with the value
\* of a row of that key.
DataEntries(result, rows, path(_)) ==
    /\ DataKeys(result) =
          {DataKey(path(r.names), r.item) : r \in {x \in rows : NamedItem(x)}}
    /\ \A r \in rows :
          NamedItem(r) =>
              LET key == DataKey(path(r.names), r.item)
              IN  /\ key \in DOMAIN result
                  /\ (\A o \in rows :
                         (NamedItem(o) /\ DataKey(path(o.names), o.item) = key)
                             => o.value = r.value)
                        => result[key] = format_currency(r.value)

SameNames(names) == names

\* C23 as stated: every Data row of the document, at any depth and under
\* any untyped row with nested Rows, whose name is not blank and no noise
\* label has the entry DATA::<path>::<item> with its last-column value,
\* <path> the names of the enclosing Sections joined by "::", and there is
\* no other DATA:: entry (none for a noise label).
C23_DataEntriesAsStated ==
    \A c \in 1..Len(calls) :
        DataEntries(calls[c].result, AllDataRows(calls[c].given), SameNames)

\* C23: every Data row that is not within the nested Rows of another Data
\* row, and whose name is not blank and no noise label, has the entry
\* DATA::<path>::<item> with its last-column value, <path> the names of
\* the enclosing Sections joined by "::" with the blank names at its start
\* left out; rows that are neither Section nor Data rows are recursed with
\* the path unchanged; there is no other DATA:: entry, so none for a row
\* named by a noise label at any depth.
C23_DataEntries ==
    \A c \in 1..Len(calls) :
        DataEntries(calls[c].result, OuterDataRows(calls[c].given), DropBlank)

\* C23 witness: an untyped row x with flat column values under an untyped
\* row with nested Rows, in T under B, has the entry DATA::B::T::x; and a
\* call on a report with the noise row at the third level has the entry of
\* x and none of the noise row.
C23_Witness ==
    /\ \E c \in 1..Len(calls) :
          /\ calls[c].given =
                DataReport("B", "T", [Rows |-> [Row |-> <<LegacyRow(" x ", "5.00")>>]])
          /\ DataKeys(calls[c].result) = {"DATA::B::T::x", "DATA::B::T::z"}
          /\ calls[c].result["DATA::B::T::x"] = 500
    /\ \E c \in 1..Len(calls) :
          DataKeys(calls[c].result) = {"DATA::B::T::U::x"}

(***************************************************************************)
(* extract_category_totals on ClassSales reports whose columns come in     *)
(* every order: the Total and the bare titles of a category's two          *)
(* qualifiers, the category's own total, and a title of the next category. *)
(***************************************************************************)
MaxColumns == 3

\* A ClassSales report of the given titles and GrandTotal cells (after the
\* label column).
ColumnsDoc(titles, values) ==
    [Header |-> [EndPeriod |-> "2025-10-31"],
     Columns |-> [Column |-> <<[ColTitle |-> ""]>> \o
                    [i \in 1..Len(titles) |-> [ColTitle |-> titles[i]]]],
     Rows |-> [Row |->
        << [type |-> "Section", group |-> "GrandTotal",
            Summary |-> [ColData |-> <<[value |-> "TOTAL"]>> \o
                    [i \in 1..Len(values) |-> [value |-> values[i]]]]] >>]]

NextCategory(c) ==
    CASE c = "water" -> "fire" [] c = "fire" -> "mold_bio"
      [] c = "mold_bio" -> "other" [] c = "other" -> "subcontract"
      [] c = "subcontract" -> "reconstruction" [] c = "reconstruction" -> "water"

\* The titles the columns of a report on category c are taken from, each
\* with the amount its GrandTotal cell holds (text and cents).
TitlePool(c) ==
    LET P == CATEGORY_PATTERNS[c]
    IN  { [title |-> P[1], text |-> "10000.00", cents |-> 1000000],
          [title |-> P[3], text |-> "2000.00", cents |-> 200000],
          [title |-> P[2], text |-> "300.00", cents |-> 30000],
          [title |-> P[4], text |-> "40.00", cents |-> 4000],
          [title |-> P[5], text |-> "600000.00", cents |-> 60000000],
          [title |-> CATEGORY_PATTERNS[NextCategory(c)][1],
           text |-> "5.00", cents |-> 500] }

RECURSIVE Arrangements(_, _)
\* The sequences of at most n different elements of S.
Arrangements(S, n) ==
    IF n = 0 THEN {<<>>}
    ELSE {<<>>} \cup
         UNION {{<<x>> \o rest : rest \in Arrangements(S \ {x}, n - 1)} : x \in S}

ColumnsOf(columns) ==
    ColumnsDoc([i \in 1..Len(columns) |-> columns[i].title],
               [i \in 1..Len(columns) |-> columns[i].text])

ColumnLists ==
    UNION {Arrangements(TitlePool(Categories[k]), MaxColumns) :
              k \in 1..Len(Categories)}

InitColumns ==
    /\ RoyaltyIdle
    /\ SummaryNotCalled
    /\ StructureIdle
    /\ WalkerIdle
    /\ last_month_data \in {ColumnsOf(columns) : columns \in ColumnLists}
    /\ ytd_data = ColumnsDoc(<<"TOTAL">>, <<"">>)

NextColumns == CallExtractCategoryTotals

SpecColumns == InitColumns /\ [][NextColumns]_vars

\* The cents of the GrandTotal cell of the column titled title, None when
\* the report has no such column.
ColumnCents(rvcr_data, c, title) ==
    LET cols == ColumnTitles(rvcr_data)
        total_row == TopRows(rvcr_data)[1].Summary.ColData
    IN  IF \E i \in 1..Len(cols) : cols[i] = title
        THEN LET i == CHOOSE i \in 1..Len(cols) : cols[i] = title
             IN  (CHOOSE t \in TitlePool(c) : t.text = total_row[i].value).cents
        ELSE None

\* The amount a qualifier's slot must hold: that of the "Total " title when
\* the report has it, else that of the bare title, else 0.
PreferredCents(rvcr_data, c, total_title, bare_title) ==
    IF ColumnCents(rvcr_data, c, total_title) # None
    THEN ColumnCents(rvcr_data, c, total_title)
    ELSE IF ColumnCents(rvcr_data, c, bare_title) # None
    THEN ColumnCents(rvcr_data, c, bare_title)
    ELSE 0

\* The category a report of the column family is about.
ReportCategories(rvcr_data) ==
    {c \in DOMAIN CATEGORY_PATTERNS :
        \A i \in 2..Len(ColumnTitles(rvcr_data)) :
            \E t \in TitlePool(c) : t.title = ColumnTitles(rvcr_data)[i]}

\* C24: for each category and qualifier, a report with both the
\* "Total <Qualifier> - <Category>" and the bare "<Qualifier> - <Category>"
\* title has the amount of the "Total " column in the slot, whatever the
\* order of the columns; the bare column is read only when there is no
\* "Total " one; a title of another category or qualifier is never read.
C24_TotalPreferred ==
    (fn = "extract_category_totals" /\ args.rvcr_data = "last_month") =>
        \A c \in ReportCategories(last_month_data) :
            LET P == CATEGORY_PATTERNS[c]
            IN  /\ ret.result[c].commercial =
                      PreferredCents(last_month_data, c, P[1], P[3])
                /\ ret.result[c].residential =
                      PreferredCents(last_month_data, c, P[2], P[4])
                /\ \A d \in DOMAIN CATEGORY_PATTERNS \ {c, NextCategory(c)} :
                      ret.result[d] = ZeroCategory
                /\ ret.result[NextCategory(c)].residential = 0
                /\ ret.result[NextCategory(c)].commercial =
                      Max(0, ColumnCents(last_month_data, c,
                                         CATEGORY_PATTERNS[NextCategory(c)][1]))

\* C24 witness: the bare Commercial column of a category comes before its
\* "Total " column and before a Residential one, and the slot holds the
\* amount of the "Total " column.
C24_Witness ==
    /\ fn = "extract_category_totals"
    /\ args.rvcr_data = "last_month"
    /\ ColumnTitles(last_month_data) =
          <<"", "Commercial - Fire", "Residential - Fire", "Total Commercial - Fire">>
    /\ ret.result.fire.commercial = 1000000
    /\ ret.result.fire.residential = 4000

(***************************************************************************)
(* extract_category_totals on ClassSales reports whose water columns hold  *)
(* positive, zero, negative and blank amounts.                             *)
(***************************************************************************)
AmountTexts == {"100.00", "0.00", "-50.00", ""}

AmountCents(text) ==
    CASE text = "100.00" -> 10000 [] text = "0.00" -> 0
      [] text = "-50.00" -> -5000 [] text = "" -> 0

\* The water columns of a report: which of the Commercial, Residential and
\* unqualified Total columns it has.
WaterLayouts == SUBSET {"commercial", "residential", "total"}

WaterTitle(kind) ==
    CASE kind = "commercial" -> CATEGORY_PATTERNS["water"][1]
      [] kind = "residential" -> CATEGORY_PATTERNS["water"][2]
      [] kind = "total" -> CATEGORY_PATTERNS["water"][5]

\* The report with the columns of layout, in the order Commercial,
\* Residential, Total, holding the amounts of amt.
WaterDoc(layout, amt) ==
    LET kinds == SelectSeq(<<"commercial", "residential", "total">>,
                           LAMBDA k : k \in layout)
    IN  ColumnsDoc([i \in 1..Len(kinds) |-> WaterTitle(kinds[i])],
                   [i \in 1..Len(kinds) |-> amt[kinds[i]]])

WaterDocs ==
    {WaterDoc(layout, amt) :
        layout \in WaterLayouts,
        amt \in [{"commercial", "residential", "total"} -> AmountTexts]}

InitAmounts ==
    /\ RoyaltyIdle
    /\ SummaryNotCalled
    /\ StructureIdle
    /\ WalkerIdle
    /\ last_month_data \in WaterDocs
    /\ ytd_data = ColumnsDoc(<<"TOTAL">>, <<"">>)

NextAmounts == CallExtractCategoryTotals

SpecAmounts == InitAmounts /\ [][NextAmounts]_vars

\* The amount of the column of title in the report, None without it.
CentsUnder(rvcr_data, title) ==
    LET cols == ColumnTitles(rvcr_data)
    IN  IF \E i \in 1..Len(cols) : cols[i] = title
        THEN AmountCents(TopRows(rvcr_data)[1].Summary.ColData[
                 CHOOSE i \in 1..Len(cols) : cols[i] = title].value)
        ELSE None

\* C25: a category's total is commercial + residential whenever a
\* Commercial or a Residential column is found, whatever the amounts read
\* (positive, zero or negative); the unqualified Total column is used only
\* when neither is found; a category without a column has all three 0.
C25_CategoryTotal ==
    (fn = "extract_category_totals" /\ args.rvcr_data = "last_month") =>
        LET com == CentsUnder(last_month_data, WaterTitle("commercial"))
            res == CentsUnder(last_month_data, WaterTitle("residential"))
            tot == CentsUnder(last_month_data, WaterTitle("total"))
            water == ret.result.water
        IN  /\ water.commercial = (IF com = None THEN 0 ELSE com)
            /\ water.residential = (IF res = None THEN 0 ELSE res)
            /\ water.total =
                  (IF com # None \/ res # None
                   THEN water.commercial + water.residential
                   ELSE IF tot # None THEN tot ELSE 0)
            /\ \A c \in DOMAIN CATEGORY_PATTERNS \ {"water"} :
                  ret.result[c] = ZeroCategory

(***************************************************************************)
(* The two copies of calculate_payment_summary on the same documents: the  *)
(* service's and the endpoint's, each called once, in either order.        *)
(***************************************************************************)
InitBoth ==
    /\ RoyaltyIdle
    /\ ReportIdle
    /\ \E m \in MonthAmounts, y \in YtdAmounts :
          /\ last_month_data = ClassSalesDoc("total", m, "2025-10-31")
          /\ ytd_data = ClassSalesDoc("total", y, "2025-10-31")
    /\ period_arg \in {[month |-> mo, year |-> 2025] : mo \in {9, 10}}
    /\ now = [month |-> 11, year |-> 2026]
    /\ summary = NoSummary
    /\ routes_summary = NoSummary
    /\ months = <<>>

NextBoth == CalculatePaymentSummary \/ RoutesCalculatePaymentSummary

SpecBoth == InitBoth /\ [][NextBoth]_vars

\* C26: on the same Last-Month and YTD ClassSales documents and period year
\* 2025 the endpoint's copy and the service's copy of
\* calculate_payment_summary return the same subtotals, royalties, fees
\* (capped and remaining_cap among them) and grand total payable.
C26_CopiesAgree ==
    (summary # NoSummary /\ routes_summary # NoSummary) =>
        /\ routes_summary.subtotals = summary.subtotals
        /\ routes_summary.royalties.standard_rate.amount
              = summary.royalties.standard_rate.amount
        /\ routes_summary.royalties.reduced_rate.amount
              = summary.royalties.reduced_rate.amount
        /\ routes_summary.royalties.total = summary.royalties.total
        /\ routes_summary.fees.fixed_fee = summary.fees.fixed_fee
        /\ routes_summary.fees.national_accounts = summary.fees.national_accounts
        /\ routes_summary.fees.national_brand_fund.amount
              = summary.fees.national_brand_fund.amount
        /\ routes_summary.fees.national_brand_fund.capped
              = summary.fees.national_brand_fund.capped
        /\ routes_summary.fees.national_brand_fund.remaining_cap
              = summary.fees.national_brand_fund.remaining_cap
        /\ routes_summary.fees.national_brand_reduced
              = summary.fees.national_brand_reduced
        /\ routes_summary.fees.total = summary.fees.total
        /\ routes_summary.grand_total_payable = summary.grand_total_payable

(***************************************************************************)
(* The signs of the amounts of a payment summary (checked under            *)
(* SpecSummary, whose documents hold zero and negative amounts).           *)
(***************************************************************************)
RoyaltiesNonNegative ==
    /\ summary.royalties.standard_rate.amount >= 0
    /\ summary.royalties.reduced_rate.amount >= 0
    /\ summary.royalties.total >= 0
    /\ \A c \in DOMAIN CATEGORY_PATTERNS :
          /\ summary.categories[c].commercial.royalty >= 0
          /\ summary.categories[c].residential.royalty >= 0
          /\ summary.categories[c].total.royalty >= 0

FeesNonNegative ==
    /\ summary.fees.fixed_fee >= 0
    /\ summary.fees.national_accounts >= 0
    /\ summary.fees.national_brand_fund.amount >= 0
    /\ summary.fees.national_brand_reduced >= 0
    /\ summary.fees.total >= 0
    /\ summary.grand_total_payable >= 0

RemainingCapInRange ==
    /\ summary.fees.national_brand_fund.remaining_cap >= 0
    /\ summary.fees.national_brand_fund.remaining_cap
          <= summary.fees.national_brand_fund.annual_cap

\* C27: for any pair of documents, those with zero or negative amounts
\* among them, every royalty amount, each of the four fees, fees.total and
\* grand_total_payable of the summary is >= 0, and remaining_cap lies
\* between 0 and annual_cap.
C27_NonNegative ==
    (summary # NoSummary) =>
        /\ RoyaltiesNonNegative
        /\ FeesNonNegative
        /\ RemainingCapInRange

(***************************************************************************)
(* generate_report: the walker's maps of the two documents, the structures *)
(* of the two and their merge, whose items are looked up in the maps.      *)
(***************************************************************************)
\* The documents of the two walkers: the small reports, a subcategory with
\* each kind of item row, names with blanks and separators, and a
\* subcategory holding a row of type Section that carries flat column
\* values and neither Header nor Summary.
AgreeReports ==
    SmallReports
        \cup {DataReport("B", "T", row) : row \in ItemRows("x", "5.00")}
        \cup {NamedReport(" B ", "SD - Excise Tax", "Total x"),
              NamedReport("A::A", " B ", " x ")}
        \cup {DataReport("B", "T",
                  [type |-> "Section", ColData |-> <<Cell("g"), Cell("5.00")>>])}

InitAgree ==
    /\ RoyaltyIdle
    /\ SummaryNotCalled
    /\ StructureIdle
    /\ WalkerIdle
    /\ last_month_data \in AgreeReports
    /\ ytd_data \in SmallReports

NextAgree == ExtractTotals \/ ExtractStructures \/ MergeStructures

SpecAgree == InitAgree /\ [][NextAgree]_vars

\* The key generate_report looks an item up under.
LookupKey(triple) ==
    "DATA::" \o triple[1] \o "::" \o triple[2] \o "::" \o triple[3]

\* The walker's maps of a document among the calls made.
MapsOf(which) ==
    {calls[c].result : c \in {i \in 1..Len(calls) : calls[i].json_data = which}}

\* C28: for every (category, subcategory, item) the structure of a
\* document lists, the walker's map of the same document has the key
\* DATA::<category>::<subcategory>::<item>; so every item of the merged
\* structure is looked up under a key of the map of one of the two
\* documents.
C28_WalkersAgree ==
    /\ (report_pc # "loaded") =>
          /\ \A t \in Triples(report_lm_categories) :
                \A m \in MapsOf("last_month") : LookupKey(t) \in DOMAIN m
          /\ \A t \in Triples(report_ytd_categories) :
                \A m \in MapsOf("ytd") : LookupKey(t) \in DOMAIN m
    /\ (report_pc = "merged") =>
          \A t \in Triples(report_categories) :
              \A lm \in MapsOf("last_month"), ytd \in MapsOf("ytd") :
                  LookupKey(t) \in DOMAIN lm \cup DOMAIN ytd

\* The walkers agree on a document loaded as Last Month when no row of
\* type Section carries flat column values: the case of C28 in which the
\* merged structure lists an item of each document only.
WalkersAgreeState ==
    /\ report_pc = "merged"
    /\ \E lm \in MapsOf("last_month"), ytd \in MapsOf("ytd") :
          /\ \E t \in Triples(report_categories) :
                LookupKey(t) \in DOMAIN lm /\ LookupKey(t) \notin DOMAIN ytd
          /\ \E t \in Triples(report_categories) :
                LookupKey(t) \in DOMAIN ytd /\ LookupKey(t) \notin DOMAIN lm

(***************************************************************************)
(* The standard-rate royalty and the fixed fee as functions of the volume  *)
(* (checked under SpecRoyalty): the call of the state against the calls on *)
(* every lower volume.                                                     *)
(***************************************************************************)
\* The tier that prices a volume > 0: the first whose upper bound is >= it.
PricingTier(volume) ==
    CHOOSE i \in 1..Len(STANDARD_RATE_TIERS) :
        /\ UpperBoundAtLeast(i, volume)
        /\ \A j \in 1..(i - 1) : ~UpperBoundAtLeast(j, volume)

\* The volumes v1 with 0 < v1 <= v2.
VolumesUpTo(v2) == {v1 \in Volumes : 0 < v1 /\ v1 <= v2}

\* C29 as stated: for all volumes 0 < v1 <= v2 the royalty of v1 is <= the
\* royalty of v2, also when a tier boundary lies between the two, and the
\* fixed fee of v1 is <= the fixed fee of v2.
C29_NonDecreasingAsStated ==
    (fn = "calculate_standard_rate_royalty" /\ args.volume > 0) =>
        \A v1 \in VolumesUpTo(args.volume) :
            /\ calculate_standard_rate_royalty(v1).royalty <= ret.royalty
            /\ calculate_standard_rate_royalty(v1).fixed_fee <= ret.fixed_fee

\* C29: for all volumes 0 < v1 <= v2 the fixed fee of v1 is <= the fixed fee
\* of v2, and the royalty of v1 is <= the royalty of v2 when one tier prices
\* both; the royalty of a volume one cent above a tier's upper bound may be
\* below the royalty of the bound.
C29_NonDecreasing ==
    (fn = "calculate_standard_rate_royalty" /\ args.volume > 0) =>
        \A v1 \in VolumesUpTo(args.volume) :
            /\ calculate_standard_rate_royalty(v1).fixed_fee <= ret.fixed_fee
            /\ (PricingTier(v1) = PricingTier(args.volume)) =>
                   calculate_standard_rate_royalty(v1).royalty <= ret.royalty

\* C29 witness: the second tier's upper bound has been priced; the royalty
\* of the tier's lowest volume is below its royalty, the fixed fee of the
\* first tier's upper bound is below its fixed fee.
C29_Witness ==
    /\ fn = "calculate_standard_rate_royalty"
    /\ args.volume = 2141699
    /\ {1284999, 1285000} \subseteq VolumesUpTo(args.volume)
    /\ PricingTier(1285000) = PricingTier(args.volume)
    /\ calculate_standard_rate_royalty(1285000).royalty < ret.royalty
    /\ PricingTier(1284999) # PricingTier(args.volume)
    /\ calculate_standard_rate_royalty(1284999).fixed_fee < ret.fixed_fee

(***************************************************************************)
(* The tree walker on reports whose Summary rows share labels: a Section   *)
(* and a Section within it, two sibling Sections, an untyped row with a    *)
(* Summary around a Section; the labels include keys of Data rows and of   *)
(* Header-level values.                                                    *)
(***************************************************************************)
SummaryLabels ==
    {"Total", " Total ", "", "Total T", "DATA::B::T::x", "HEADER::B::T"}
SummaryValues == {"2.00", "n/a"}

\* A Section whose Summary carries the given label.
LabelledSection(name, header_value, rows, label, total) ==
    [type |-> "Section",
     Header |-> [ColData |-> <<Cell(name), Cell(header_value)>>],
     Rows |-> [Row |-> rows],
     Summary |-> [ColData |-> <<Cell(label), Cell(total)>>]]

SummaryReport(shape, label1, label2, total2) ==
    ProfitAndLoss(
        CASE shape = "nested" ->
               << LabelledSection("B", "",
                      << LabelledSection("T", "12.00", <<DataRow("x", "5.00")>>,
                                         label1, "1.00") >>,
                      label2, total2) >>
          [] shape = "siblings" ->
               << SectionRow("B", "",
                      << LabelledSection("T", "12.00", <<DataRow("x", "5.00")>>,
                                         label1, "1.00"),
                         LabelledSection("U", "", <<DataRow("x", "6.00")>>,
                                         label2, total2) >>,
                      "11.00") >>
          [] shape = "untyped" ->
               << WrapperRow(
                      << SectionRow("B", "",
                             << LabelledSection("T", "12.00",
                                                <<DataRow("x", "5.00")>>,
                                                label2, total2) >>,
                             "5.00") >>,
                      label1, "1.00") >>)

SummaryReports ==
    {SummaryReport(shape, label1, label2, total2) :
        shape \in {"nested", "siblings", "untyped"},
        label1 \in SummaryLabels, label2 \in SummaryLabels,
        total2 \in SummaryValues}

InitLabels ==
    /\ RoyaltyIdle
    /\ SummaryNotCalled
    /\ StructureIdle
    /\ WalkerIdle
    /\ last_month_data \in SummaryReports
    /\ ytd_data \in FlatReports

NextLabels == ExtractTotals

SpecLabels == InitLabels /\ [][NextLabels]_vars

\* The Summary of a row as an entry, none for a blank label.
OwnSummary(row) ==
    IF Has(row, "Summary") /\ ColDataOf(row.Summary) # <<>>
          /\ Strip(FirstValue(ColDataOf(row.Summary), "")) # ""
    THEN <<[label |-> Strip(FirstValue(ColDataOf(row.Summary), "")),
            value |-> format_currency(LastValue(ColDataOf(row.Summary), "0.00"))]>>
    ELSE <<>>

\* The Summary entries of rows from k on in walk order: a Section's after
\* those of its nested rows, an untyped row's before them, later siblings
\* after earlier ones.
RECURSIVE SummariesInOrder(_, _)
SummariesInOrder(rows, k) ==
    IF k > Len(rows) THEN <<>>
    ELSE (IF Get(rows[k], "type", "") = "Section"
          THEN SummariesInOrder(NestedRows(rows[k]), 1) \o OwnSummary(rows[k])
          ELSE IF IsDataRow(rows[k]) THEN <<>>
          ELSE OwnSummary(rows[k]) \o SummariesInOrder(NestedRows(rows[k]), 1))
         \o SummariesInOrder(rows, k + 1)

\* The keys the Data rows and the Header-level values of a document go
\* under.
TaggedKeys(json_data) ==
    {DataKey(DropBlank(r.names), r.item) :
        r \in {x \in OuterDataRows(json_data) : NamedItem(x)}}
    \cup {"HEADER::" \o sec.path :
            sec \in {x \in Sections(json_data) : x.value # 0 /\ x.parent_path # ""}}

\* The entry of every Summary label holds the value of the Summary of that
\* label that comes last in walk order.
LastWriterWins(json_data, result) ==
    LET written == SummariesInOrder(NestedRows(json_data), 1)
    IN  \A i \in 1..Len(written) :
            /\ written[i].label \in DOMAIN result
            /\ (\A j \in (i + 1)..Len(written) : written[j].label # written[i].label)
                  => result[written[i].label] = written[i].value

\* No Summary label is the key of a Data row or of a Header-level value.
NoTaggedLabel(json_data) ==
    LET written == SummariesInOrder(NestedRows(json_data), 1)
    IN  \A i \in 1..Len(written) : written[i].label \notin TaggedKeys(json_data)

\* C30: a Summary entry is keyed by its bare label, and of the Summary rows
\* of one document that carry the same label the entry holds the value of
\* the one processed last, a Section's Summary after all of its nested rows
\* and later siblings after earlier ones; no Summary entry shares its key
\* with a DATA:: or HEADER:: entry, so neither overwrites the other.
C30_SummaryLastWriter ==
    \A c \in 1..Len(calls) :
        /\ LastWriterWins(calls[c].given, calls[c].result)
        /\ NoTaggedLabel(calls[c].given)

====
